---- MODULE Spec2Model ----
(***************************************************************************)
(* Conversation fork feature of gemini-voyager: turn-id normalisation,     *)
(* fork planning (resolveForkPlan), replica merge (mergeForkNodes) and the *)
(* fork life cycle (executeFork / watchForNewConversation) over the        *)
(* fork-node store.                                                        *)
(*                                                                         *)
(* Strings whose characters matter (turn ids) are sequences of one-        *)
(* character strings; identifiers that are only compared for equality      *)
(* (conversation ids, group ids, titles) are plain strings.                *)
(***************************************************************************)
EXTENDS Integers, Sequences, FiniteSets, TLC

\* ------------------------------------------------------------------------
\* Bounds of the model
\* ------------------------------------------------------------------------

\* largest createdAt / clock value drawn for an input node
MaxTime == 2
\* largest number of nodes in one replica handed to mergeForkNodes
MaxNodes == 2
\* largest forkIndex of an input node handed to resolveForkPlan
MaxIndex == 1
\* number of fork actions (executeFork calls) in one run of the system
MaxForks == 2
\* number of removeForkNode calls in one run of the system
MaxRemoves == 1
\* number of replica merges in one run of the system
MaxSyncs == 1
\* number of resolveForkPlan calls on one growing group
MaxCalls == 3
\* largest number of nodes in one list handed to buildBranchDisplayNodes
MaxListLen == 2
\* largest number of turns handed to buildForkMarkdown
MaxTurns == 2
\* largest length of a string handed to normalizeTurnId
MaxIdLen == 5

\* ------------------------------------------------------------------------
\* Generic helpers
\* ------------------------------------------------------------------------

Range(s) == {s[i] : i \in 1..Len(s)}

Max(a, b) == IF a > b THEN a ELSE b

\* ------------------------------------------------------------------------
\* turnId.ts
\* ------------------------------------------------------------------------

Digits == <<"0", "1", "2", "3", "4", "5", "6", "7", "8", "9">>

IsDigit(c) == c \in Range(Digits)

\* the white space String.prototype.trim removes, line terminators included
WhiteSpace == {" ", "\t", "\n"}

\* the characters "." does not match
LineTerminators == {"\n"}

IsSpace(c) == c \in WhiteSpace

\* String.prototype.trim
RECURSIVE TrimLeft(_)
TrimLeft(s) ==
    IF s # <<>> /\ IsSpace(Head(s)) THEN TrimLeft(Tail(s)) ELSE s

RECURSIVE TrimRight(_)
TrimRight(s) ==
    IF s # <<>> /\ IsSpace(s[Len(s)]) THEN TrimRight(SubSeq(s, 1, Len(s) - 1)) ELSE s

Trim(s) == TrimLeft(TrimRight(s))

\* number of leading digits of s from position i on (the greedy \d+)
RECURSIVE DigitRun(_, _)
DigitRun(s, i) ==
    IF i <= Len(s) /\ IsDigit(s[i]) THEN 1 + DigitRun(s, i + 1) ELSE 0

\* mutation of UserTurnIdMatch: the optional suffix is not accepted
UserTurnIdMatchNoSuffix(s) ==
    IF Len(s) >= 3 /\ s[1] = "u" /\ s[2] = "-" /\ DigitRun(s, 3) >= 1
    THEN LET k == 3 + DigitRun(s, 3)
         IN  IF k > Len(s) THEN SubSeq(s, 3, k - 1) ELSE <<>>
    ELSE <<>>

\* USER_TURN_ID_RE = /^u-(\d+)(?:-.+)?$/ : the captured digits, or <<>> when
\* the string does not match
UserTurnIdMatch(s) ==
    IF Len(s) >= 3 /\ s[1] = "u" /\ s[2] = "-" /\ DigitRun(s, 3) >= 1
    THEN LET k == 3 + DigitRun(s, 3)
         IN  IF \/ k > Len(s)
                \/ /\ s[k] = "-" /\ Len(s) > k
                   /\ \A j \in (k + 1)..Len(s) : s[j] \notin LineTerminators
             THEN SubSeq(s, 3, k - 1)
             ELSE <<>>
    ELSE <<>>

\* decimal digits of a natural number
RECURSIVE ToDigits(_)
ToDigits(n) ==
    IF n < 10 THEN <<Digits[n + 1]>> ELSE ToDigits(n \div 10) \o <<Digits[(n % 10) + 1]>>

makeStableTurnId(index) == <<"u", "-">> \o ToDigits(Max(0, index))

normalizeTurnId(turnId) ==
    LET trimmed == Trim(turnId)
        match == UserTurnIdMatch(trimmed)
    IN  IF match = <<>> THEN trimmed ELSE <<"u", "-">> \o match

\* ------------------------------------------------------------------------
\* branching.ts : resolveForkPlan
\* ------------------------------------------------------------------------

\* groups[groupId] || []
GroupNodesOf(groups, groupId) ==
    IF groupId \in DOMAIN groups THEN groups[groupId] ELSE <<>>

\* Array.from(new Set(seq)) : distinct values in order of first occurrence
RECURSIVE Distinct(_)
Distinct(seq) ==
    IF seq = <<>> THEN <<>>
    ELSE LET rest == Distinct(SubSeq(seq, 1, Len(seq) - 1))
             last == seq[Len(seq)]
         IN  IF last \in Range(rest) THEN rest ELSE Append(rest, last)

\* mutation of BestGroupFrom: a later group of equal size replaces the best one
RECURSIVE BestGroupFromLastTie(_, _, _, _)
BestGroupFromLastTie(groups, groupIds, i, bestGroupId) ==
    IF i > Len(groupIds) THEN bestGroupId
    ELSE IF Len(GroupNodesOf(groups, groupIds[i])) >= Len(GroupNodesOf(groups, bestGroupId))
         THEN BestGroupFromLastTie(groups, groupIds, i + 1, groupIds[i])
         ELSE BestGroupFromLastTie(groups, groupIds, i + 1, bestGroupId)

\* the loop of lines 34-40: the best group id after scanning groupIds[i..]
RECURSIVE BestGroupFrom(_, _, _, _)
BestGroupFrom(groups, groupIds, i, bestGroupId) ==
    IF i > Len(groupIds) THEN bestGroupId
    ELSE IF Len(GroupNodesOf(groups, groupIds[i])) > Len(GroupNodesOf(groups, bestGroupId))
         THEN BestGroupFrom(groups, groupIds, i + 1, groupIds[i])
         ELSE BestGroupFrom(groups, groupIds, i + 1, bestGroupId)

\* mutation of MaxForkIndex: the list is taken to be sorted, its last index returned
LastForkIndex(nodes) ==
    IF nodes = <<>> THEN 0 ELSE nodes[Len(nodes)].forkIndex

\* mutation of MaxForkIndex: the reduction stops after the first node
FirstForkIndex(nodes) ==
    IF nodes = <<>> THEN 0 ELSE Max(0, nodes[1].forkIndex)

\* bestGroupNodes.reduce((max, node) => Math.max(max, node.forkIndex), 0)
RECURSIVE MaxForkIndex(_)
MaxForkIndex(nodes) ==
    IF nodes = <<>> THEN 0
    ELSE Max(MaxForkIndex(SubSeq(nodes, 1, Len(nodes) - 1)), nodes[Len(nodes)].forkIndex)

\* mutation of FindSource: the stored turn id is compared without normalisation
RECURSIVE FindSourceRaw(_, _, _, _)
FindSourceRaw(nodes, i, conversationId, normalizedTurnId) ==
    IF i > Len(nodes) THEN 0
    ELSE IF nodes[i].conversationId = conversationId /\ nodes[i].turnId = normalizedTurnId
         THEN i
         ELSE FindSourceRaw(nodes, i + 1, conversationId, normalizedTurnId)

\* Array.prototype.find : index of the first node satisfying the source test, 0 if none
RECURSIVE FindSource(_, _, _, _)
FindSource(nodes, i, conversationId, normalizedTurnId) ==
    IF i > Len(nodes) THEN 0
    ELSE IF nodes[i].conversationId = conversationId
            /\ normalizeTurnId(nodes[i].turnId) = normalizedTurnId
         THEN i
         ELSE FindSource(nodes, i + 1, conversationId, normalizedTurnId)

\* mutation of SameTurnNodes: the turn ids are compared as stored
SameRawTurnNodes(turnId, conversationNodes) ==
    SelectSeq(conversationNodes, LAMBDA node : node.turnId = turnId)

SameTurnNodes(turnId, conversationNodes) ==
    SelectSeq(conversationNodes,
              LAMBDA node : normalizeTurnId(node.turnId) = normalizeTurnId(turnId))

\* resolveForkPlan with the number of createForkGroupId invocations it made;
\* createForkGroupId is the id the callback returns when invoked
resolveForkPlanRun(conversationId, turnId, conversationNodes, groups, createForkGroupId) ==
    LET normalizedTurnId == normalizeTurnId(turnId)
        sameTurnNodes == SameTurnNodes(turnId, conversationNodes)
    IN  IF Len(sameTurnNodes) = 0
        THEN [plan |-> [forkGroupId |-> createForkGroupId,
                        sourceForkIndex |-> 0,
                        nextForkIndex |-> 1],
              calls |-> 1]
        ELSE LET groupIds == Distinct([i \in 1..Len(sameTurnNodes) |-> sameTurnNodes[i].forkGroupId])
                 bestGroupId == BestGroupFrom(groups, groupIds, 1, groupIds[1])
                 bestGroupNodes == GroupNodesOf(groups, bestGroupId)
                 sourceAt == FindSource(bestGroupNodes, 1, conversationId, normalizedTurnId)
                 maxForkIndex == MaxForkIndex(bestGroupNodes)
             IN  [plan |-> [forkGroupId |-> bestGroupId,
                            sourceForkIndex |-> IF sourceAt = 0 THEN 0
                                                ELSE bestGroupNodes[sourceAt].forkIndex,
                            nextForkIndex |-> maxForkIndex + 1],
                  calls |-> 0]

resolveForkPlan(conversationId, turnId, conversationNodes, groups, createForkGroupId) ==
    resolveForkPlanRun(conversationId, turnId, conversationNodes, groups, createForkGroupId).plan

\* ------------------------------------------------------------------------
\* forkTypes.ts : ForkNode, ForkNodesData
\* ------------------------------------------------------------------------

UrlOf(conversationId) == <<"https://gemini.google.com/app/", conversationId>>

ForkNode(turnId, conversationId, conversationTitle, forkGroupId, forkIndex, createdAt) ==
    [turnId |-> turnId,
     conversationId |-> conversationId,
     conversationUrl |-> UrlOf(conversationId),
     conversationTitle |-> conversationTitle,
     forkGroupId |-> forkGroupId,
     forkIndex |-> forkIndex,
     createdAt |-> createdAt]

\* mutation of IdentityOf: the fork group left out of the key
IdentityWithoutGroup(node) == <<node.conversationId, node.turnId>>

\* the identity of a node: (conversationId, turnId, forkGroupId)
IdentityOf(node) == <<node.conversationId, node.turnId, node.forkGroupId>>

\* the composite key `${conversationId}:${turnId}` of the groups index
GroupKey(node) == <<node.conversationId, node.turnId>>

\* an index (a JS object used as a map) with no keys
EmptyIndex == <<>>

ForkNodesData(nodes, groups) == [nodes |-> nodes, groups |-> groups]

EmptyData == ForkNodesData(EmptyIndex, EmptyIndex)

\* null / undefined handed in place of a dataset
Null == [absent |-> TRUE]

\* an object that is no ForkNodesData: it has no nodes index
Malformed == [version |-> 1]

\* all conversation ids of the model, in the key order of the indices
ConversationOrder == <<"conv1", "conv2", "conv3", "conv4", "conv5", "conv6", "conv7">>

\* an index with key k set to value v
IndexSet(index, k, v) ==
    [x \in (DOMAIN index) \cup {k} |-> IF x = k THEN v ELSE index[x]]

\* all nodes of a nodes index, conversation by conversation
RECURSIVE FlatNodesFrom(_, _)
FlatNodesFrom(nodes, i) ==
    IF i > Len(ConversationOrder) THEN <<>>
    ELSE (IF ConversationOrder[i] \in DOMAIN nodes THEN nodes[ConversationOrder[i]] ELSE <<>>)
         \o FlatNodesFrom(nodes, i + 1)

FlatNodes(nodes) == FlatNodesFrom(nodes, 1)

NodeSetOf(nodes) == Range(FlatNodes(nodes))

\* ------------------------------------------------------------------------
\* merge.ts : mergeForkNodes (section 4.4 of the specification)
\* ------------------------------------------------------------------------

\* data?.nodes || {} : an absent or malformed argument counts as empty
NodesIndexOf(data) == IF "nodes" \in DOMAIN data THEN data.nodes ELSE EmptyIndex

ConversationNodesOf(nodes, conversationId) ==
    IF conversationId \in DOMAIN nodes THEN nodes[conversationId] ELSE <<>>

\* mutation of CloudEntryWins: the cloud entry also wins a tie
CloudEntryWinsOnTie(existing, cloudNode) == cloudNode.createdAt >= existing.createdAt

\* step 3: whether the cloud entry replaces the entry already kept for its identity
CloudEntryWins(existing, cloudNode) == cloudNode.createdAt > existing.createdAt

\* mutation of MergeEntry: the cloud entry replaces the kept one whatever their
\* createdAt
MergeEntryCloudAlways(kept, cloudNode) ==
    IF \E i \in 1..Len(kept) : IdentityOf(kept[i]) = IdentityOf(cloudNode)
    THEN [i \in 1..Len(kept) |->
             IF IdentityOf(kept[i]) = IdentityOf(cloudNode) THEN cloudNode ELSE kept[i]]
    ELSE Append(kept, cloudNode)

\* mutation of MergeEntry: an entry only the cloud holds is dropped
MergeEntryKnownOnly(kept, cloudNode) ==
    [i \in 1..Len(kept) |->
        IF IdentityOf(kept[i]) = IdentityOf(cloudNode) /\ CloudEntryWins(kept[i], cloudNode)
        THEN cloudNode ELSE kept[i]]

\* steps 2-3: one cloud entry folded into the entries kept so far
MergeEntry(kept, cloudNode) ==
    IF \E i \in 1..Len(kept) : IdentityOf(kept[i]) = IdentityOf(cloudNode)
    THEN [i \in 1..Len(kept) |->
             IF IdentityOf(kept[i]) = IdentityOf(cloudNode) /\ CloudEntryWins(kept[i], cloudNode)
             THEN cloudNode ELSE kept[i]]
    ELSE Append(kept, cloudNode)

\* steps 1-3 for one conversation: the local entries, then the cloud entries
RECURSIVE MergeConversation(_, _, _)
MergeConversation(kept, cloudNodes, i) ==
    IF i > Len(cloudNodes) THEN kept
    ELSE MergeConversation(MergeEntry(kept, cloudNodes[i]), cloudNodes, i + 1)

\* step 4: the nodes index of the merge
MergedNodes(localNodes, cloudNodes) ==
    [c \in (DOMAIN localNodes) \cup (DOMAIN cloudNodes) |->
        MergeConversation(ConversationNodesOf(localNodes, c),
                          ConversationNodesOf(cloudNodes, c), 1)]

\* step 5: one node's key inserted into its group's list, skipping a key already there
InsertGroupKey(groups, node) ==
    LET g == node.forkGroupId
        keys == IF g \in DOMAIN groups THEN groups[g] ELSE <<>>
    IN  IF GroupKey(node) \in Range(keys) THEN groups
        ELSE IndexSet(groups, g, Append(keys, GroupKey(node)))

RECURSIVE RebuildGroupsFrom(_, _, _)
RebuildGroupsFrom(groups, flat, i) ==
    IF i > Len(flat) THEN groups
    ELSE RebuildGroupsFrom(InsertGroupKey(groups, flat[i]), flat, i + 1)

\* mutation of RebuildGroups: the keys are inserted into the local groups index
RebuildGroupsOntoLocal(nodes, localGroups, cloudGroups) ==
    RebuildGroupsFrom(localGroups, FlatNodes(nodes), 1)

\* step 5: the groups index, rebuilt from the merged nodes alone
RebuildGroups(nodes, localGroups, cloudGroups) ==
    RebuildGroupsFrom(EmptyIndex, FlatNodes(nodes), 1)

\* mutation of mergeForkNodes: the arguments are read without a guard, and the
\* call raises on an argument that has no nodes index
mergeForkNodesUnguarded(local, cloud) ==
    IF "nodes" \in DOMAIN local /\ "nodes" \in DOMAIN cloud
    THEN LET nodes == MergedNodes(local.nodes, cloud.nodes)
         IN  ForkNodesData(nodes, RebuildGroups(nodes, local.groups, cloud.groups))
    ELSE [raised |-> TRUE]

mergeForkNodes(local, cloud) ==
    LET nodes == MergedNodes(NodesIndexOf(local), NodesIndexOf(cloud))
        localGroups == IF "groups" \in DOMAIN local THEN local.groups ELSE EmptyIndex
        cloudGroups == IF "groups" \in DOMAIN cloud THEN cloud.groups ELSE EmptyIndex
    IN  ForkNodesData(nodes, RebuildGroups(nodes, localGroups, cloudGroups))

\* ------------------------------------------------------------------------
\* State
\* ------------------------------------------------------------------------

VARIABLES
    \* one call of mergeForkNodes: its arguments, its result, its position
    mLocal, mCloud, mOut, mPc,
    \* one call of resolveForkPlan: its arguments, the plan it returned, the number
    \* of createForkGroupId invocations, its position
    pConversationId, pTurnId, pConversationNodes, pGroups, pPlan, pCalls, pPc,
    \* the fork-node store of each replica (this device, the synced copy)
    store,
    \* the forks under way: planned by executeFork, their nodes not yet both added
    pending,
    \* counters: executeFork calls, conversations created, removals, merges
    forkCount, created, removes, syncs,
    \* history: the identities recorded as a fork's new conversation
    branches,
    \* one growing fork group: its node list and the number of plans made for it
    gNodes, gCalls,
    \* one call of buildBranchDisplayNodes: its argument, its result, its position
    dGroups, dOut, dPc,
    \* one call of buildForkMarkdown: the arguments as passed, the caller's turns
    \* array as it is now, the returned string, its position
    mdArgs, mdTurns, mdOut, mdPc,
    \* one call of normalizeTurnId: its argument, its result, its position
    tRaw, tOut, tPc,
    \* one call of composeForkInputWithContext: the transcript, the language
    \* hint, the language resolved, the returned string, its position
    cHistory, cRawLanguage, cLanguage, cOut, cPc,
    \* one call of a ForkNodesService method: the call, what the runtime did with
    \* the message, the promise of sendMessage, the promise the method returned,
    \* the events emitted, the number of times the returned promise was settled,
    \* the position of the call
    sCall, sRuntime, sSent, sResult, sEvents, sSettles, sPc,
    \* pruning of one fork group: the existence cache, the clock and the number
    \* of times it advanced, the conversation of the URL, the group and the
    \* sidebar ids passed to pruneDeletedNodesFromGroup, the loop position, the
    \* nodes kept, the removeForkNode requests issued, the verdict on each node
    \* looked at, what the check under way read before its request, the number
    \* of checks made, the position
    xCache, xNow, xTicks, xCurrent, xNodes, xSidebar, xIdx, xCleaned, xRemoved, xVerdicts,
    xRequest, xChecks, xPc,
    \* one watchForNewConversation: the pending fork, the URL of the page, lastUrl,
    \* whether the MutationObserver is connected, whether the listeners and the
    \* poll interval are on, the checkUrl runs that went past their first await,
    \* the addForkNode requests issued, the number of URL changes
    wPending, wUrl, wLastUrl, wObserving, wListening, wRuns, wAdds, wChanges,
    \* one fork click: the user elements of the page with their texts, the pairs
    \* collectForkChatPairs returned to injectForkButtons, the position clicked, the
    \* turn id of the click, the turns handed to buildForkMarkdown, the transcript,
    \* the position
    eUsers, ePairs, eIndex, eTurnId, eTurns, eOut, ePc,
    \* one startFork on a conversation page: whether its cleanup has run, whether the
    \* setup timer, the debounce timer and the refresh timer are pending, whether the
    \* observer and the storage listener are on, the user-message hosts whose turn has
    \* forks, the hosts with a fork button, the indicator groups attached to each
    \* host, the runs of injectForkIndicators, the delete handlers awaiting the store
    iPhase, iSetup, iDebounce, iRefresh, iObserver, iListener, iForked, iButtons, iGroups, iRuns, iDeleting,
    \* one executeFork: the conversation id of the URL, the turn clicked, the
    \* transcript extracted, the store the reads go to, whether sessionStorage
    \* refuses the item, the pending fork stored, the number of window.open calls,
    \* how the reads went, the position
    fConversationId, fTurnIndex, fMarkdown, fStore, fStorageFull, fPending, fOpened, fReads, fPc

mergeVars == <<mLocal, mCloud, mOut, mPc>>

planVars == <<pConversationId, pTurnId, pConversationNodes, pGroups, pPlan, pCalls, pPc>>

sysVars == <<store, pending, forkCount, created, removes, syncs, branches>>

growVars == <<gNodes, gCalls>>

displayVars == <<dGroups, dOut, dPc>>

markdownVars == <<mdArgs, mdTurns, mdOut, mdPc>>

turnVars == <<tRaw, tOut, tPc>>

contextVars == <<cHistory, cRawLanguage, cLanguage, cOut, cPc>>

serviceVars == <<sCall, sRuntime, sSent, sResult, sEvents, sSettles, sPc>>

pruneVars ==
    <<xCache, xNow, xTicks, xCurrent, xNodes, xSidebar, xIdx, xCleaned, xRemoved, xVerdicts,
      xRequest, xChecks, xPc>>

watchVars == <<wPending, wUrl, wLastUrl, wObserving, wListening, wRuns, wAdds, wChanges>>

extractVars == <<eUsers, ePairs, eIndex, eTurnId, eTurns, eOut, ePc>>

indicatorVars ==
    <<iPhase, iSetup, iDebounce, iRefresh, iObserver, iListener, iForked, iButtons, iGroups,
      iRuns, iDeleting>>

executeVars ==
    <<fConversationId, fTurnIndex, fMarkdown, fStore, fStorageFull, fPending, fOpened, fReads,
      fPc>>

\* the state of the fork-node dataset and of the plans made on it
coreVars == <<mergeVars, planVars, sysVars, growVars>>

\* the state of the single calls of the remaining functions
callVars == <<displayVars, markdownVars, turnVars, contextVars, serviceVars>>

\* the state of the content script on the page
pageVars == <<pruneVars, watchVars, extractVars, indicatorVars, executeVars>>

vars == <<coreVars, callVars, pageVars>>

NoPlan == [forkGroupId |-> "", sourceForkIndex |-> 0, nextForkIndex |-> 0]

\* the state of a part of the model that a specification does not exercise
MergeIdle == mLocal = Null /\ mCloud = Null /\ mOut = EmptyData /\ mPc = "off"

PlanIdle ==
    /\ pConversationId = "" /\ pTurnId = <<>> /\ pConversationNodes = <<>>
    /\ pGroups = EmptyIndex /\ pPlan = NoPlan /\ pCalls = 0 /\ pPc = "off"

Replicas == {"local", "cloud"}

SysIdle ==
    /\ store = [r \in Replicas |-> EmptyData] /\ pending = {}
    /\ forkCount = 0 /\ created = 0 /\ removes = 0 /\ syncs = 0
    /\ branches = {}

GrowIdle == gNodes = <<>> /\ gCalls = 0

\* a promise that was not created
NoPromise == [state |-> "none"]

DisplayIdle == dGroups = <<>> /\ dOut = <<>> /\ dPc = "off"

MarkdownIdle == mdArgs = <<>> /\ mdTurns = <<>> /\ mdOut = <<>> /\ mdPc = "off"

TurnIdle == tRaw = <<>> /\ tOut = <<>> /\ tPc = "off"

ContextIdle ==
    /\ cHistory = <<>> /\ cRawLanguage = [given |-> FALSE] /\ cLanguage = ""
    /\ cOut = <<>> /\ cPc = "off"

ServiceIdle ==
    /\ sCall = <<>> /\ sRuntime = <<>> /\ sSent = NoPromise /\ sResult = NoPromise
    /\ sEvents = <<>> /\ sSettles = 0 /\ sPc = "off"

PruneIdle ==
    /\ xCache = <<>> /\ xNow = 0 /\ xTicks = 0 /\ xCurrent = "" /\ xNodes = <<>>
    /\ xSidebar = {} /\ xIdx = 0 /\ xCleaned = <<>> /\ xRemoved = <<>> /\ xVerdicts = <<>>
    /\ xRequest = <<>> /\ xChecks = 0 /\ xPc = "off"

WatchIdle ==
    /\ wPending = <<>> /\ wUrl = <<>> /\ wLastUrl = <<>> /\ wObserving = FALSE
    /\ wListening = FALSE /\ wRuns = <<>> /\ wAdds = <<>> /\ wChanges = 0

ExtractIdle ==
    /\ eUsers = <<>> /\ ePairs = <<>> /\ eIndex = 0 /\ eTurnId = <<>> /\ eTurns = <<>>
    /\ eOut = <<>> /\ ePc = "off"

IndicatorIdle ==
    /\ iPhase = "off" /\ iSetup = FALSE /\ iDebounce = FALSE /\ iRefresh = FALSE
    /\ iObserver = FALSE /\ iListener = FALSE /\ iForked = {} /\ iButtons = {}
    /\ iGroups = <<>> /\ iRuns = <<>> /\ iDeleting = 0

ExecuteIdle ==
    /\ fConversationId = "" /\ fTurnIndex = 0 /\ fMarkdown = <<>> /\ fStore = <<>>
    /\ fStorageFull = FALSE /\ fPending = <<>> /\ fOpened = 0 /\ fReads = "" /\ fPc = "off"

PageIdle == PruneIdle /\ WatchIdle /\ ExtractIdle /\ IndicatorIdle /\ ExecuteIdle

CoreIdle == MergeIdle /\ PlanIdle /\ SysIdle /\ GrowIdle

CallsIdle == DisplayIdle /\ MarkdownIdle /\ TurnIdle /\ ContextIdle /\ ServiceIdle

\* ------------------------------------------------------------------------
\* Inputs of mergeForkNodes
\* ------------------------------------------------------------------------

TurnU0 == <<"u", "-", "0">>

TurnU1 == <<"u", "-", "1">>

\* identities of the merge inputs: two groups on one turn, two turns in one
\* group, one group across two conversations
MergeIdentities ==
    {<<"conv1", TurnU0, "fork-1">>, <<"conv1", TurnU0, "fork-2">>,
     <<"conv1", TurnU1, "fork-1">>, <<"conv2", TurnU0, "fork-1">>}

\* the nodes a replica may hold; title names the replica that wrote the entry
ReplicaNodes(title) ==
    {ForkNode(id[2], id[1], title, id[3], IF id[1] = "conv1" THEN 0 ELSE 1, t) :
        id \in MergeIdentities, t \in 1..MaxTime}

\* the store never holds two entries of one identity (addForkNode refuses them)
NoDuplicateIdentity(S) ==
    \A a, b \in S : IdentityOf(a) = IdentityOf(b) => a = b

ReplicaNodeSets(title) ==
    {S \in SUBSET ReplicaNodes(title) : Cardinality(S) <= MaxNodes /\ NoDuplicateIdentity(S)}

RECURSIVE SeqOfSet(_)
SeqOfSet(S) ==
    IF S = {} THEN <<>>
    ELSE LET x == CHOOSE y \in S : TRUE IN <<x>> \o SeqOfSet(S \ {x})

\* the nodes index holding the nodes S
NodesIndexFrom(S) ==
    [c \in {n.conversationId : n \in S} |-> SeqOfSet({n \in S : n.conversationId = c})]

\* the groups index that belongs to a nodes index
DerivedGroups(nodes) == RebuildGroupsFrom(EmptyIndex, FlatNodes(nodes), 1)

\* a groups index that drifted from its nodes: the keys of fork-1 lost, a key of
\* a node that no longer exists listed twice under fork-2, a group without nodes
CorruptGroups ==
    [g \in {"fork-2", "fork-9"} |->
        IF g = "fork-2" THEN <<<<"conv2", TurnU1>>, <<"conv2", TurnU1>>>>
        ELSE <<<<"conv1", TurnU0>>>>]

MergeArguments(title) ==
    {ForkNodesData(NodesIndexFrom(S), DerivedGroups(NodesIndexFrom(S))) : S \in ReplicaNodeSets(title)}
    \cup {ForkNodesData(NodesIndexFrom(S), CorruptGroups) : S \in ReplicaNodeSets(title)}
    \cup {Null, Malformed}

\* ------------------------------------------------------------------------
\* SpecMerge : mergeForkNodes applied to every pair of arguments
\* ------------------------------------------------------------------------

InitMerge ==
    /\ mLocal \in MergeArguments("Local Title")
    /\ mCloud \in MergeArguments("Cloud Title")
    /\ mOut = EmptyData
    /\ mPc = "input"
    /\ PlanIdle /\ SysIdle /\ GrowIdle /\ CallsIdle /\ PageIdle

Merge ==
    /\ mPc = "input"
    /\ mOut' = mergeForkNodes(mLocal, mCloud)
    /\ mPc' = "merged"
    /\ UNCHANGED <<mLocal, mCloud, planVars, sysVars, growVars, callVars, pageVars>>

NextMerge == Merge

SpecMerge == InitMerge /\ [][NextMerge]_vars

\* ------------------------------------------------------------------------
\* SpecPlan : resolveForkPlan applied to bounded arguments
\* ------------------------------------------------------------------------

\* a turn id of the earlier schema, with a content hash appended
TurnU0Legacy == <<"u", "-", "0", "-", "a">>

TurnU2 == <<"u", "-", "2">>

\* the id generateUniqueId('fork') hands out: none of the ids in use
FreshGroupId == "fork-new"

\* sequences without repetition over the set S
RECURSIVE InjectiveSeqs(_)
InjectiveSeqs(S) ==
    {<<>>} \cup UNION {{<<x>> \o rest : rest \in InjectiveSeqs(S \ {x})} : x \in S}

\* the nodes the store may return for the current conversation
PlanConversationNodes ==
    {ForkNode(TurnU0, "conv1", "Conversation 1", "fork-1", 1, 1),
     ForkNode(TurnU0Legacy, "conv1", "Conversation 1", "fork-2", 1, 1),
     ForkNode(TurnU1, "conv1", "Conversation 1", "fork-1", 1, 1)}

\* the members a group list may hold, each with any forkIndex up to MaxIndex
PlanGroupMembers(groupId) ==
    IF groupId = "fork-1"
    THEN {<<"conv1", TurnU0Legacy>>, <<"conv1", TurnU1>>, <<"conv2", TurnU0>>}
    ELSE {<<"conv1", TurnU0>>, <<"conv3", TurnU0>>}

\* the lists getGroup(groupId) may return: each member at most once
PlanGroupLists(groupId) ==
    UNION {
        {[i \in 1..Len(members) |->
             ForkNode(members[i][2], members[i][1], "Conversation", groupId, index[i], 1)] :
          index \in [1..Len(members) -> 0..MaxIndex]} :
        members \in InjectiveSeqs(PlanGroupMembers(groupId))}

\* the groups argument: each candidate group listed or left out
PlanGroups ==
    {EmptyIndex}
    \cup {[g \in {"fork-1"} |-> l1] : l1 \in PlanGroupLists("fork-1")}
    \cup {[g \in {"fork-2"} |-> l2] : l2 \in PlanGroupLists("fork-2")}
    \cup {[g \in {"fork-1", "fork-2"} |-> IF g = "fork-1" THEN l1 ELSE l2] :
             l1 \in PlanGroupLists("fork-1"), l2 \in PlanGroupLists("fork-2")}

InitPlan ==
    /\ pConversationId = "conv1"
    /\ pTurnId \in {TurnU0, TurnU0Legacy, TurnU2}
    /\ pConversationNodes \in InjectiveSeqs(PlanConversationNodes)
    /\ pGroups \in PlanGroups
    /\ pPlan = NoPlan
    /\ pCalls = 0
    /\ pPc = "input"
    /\ MergeIdle /\ SysIdle /\ GrowIdle /\ CallsIdle /\ PageIdle

Plan ==
    /\ pPc = "input"
    /\ LET run == resolveForkPlanRun(pConversationId, pTurnId, pConversationNodes, pGroups,
                                     FreshGroupId)
       IN  pPlan' = run.plan /\ pCalls' = run.calls
    /\ pPc' = "planned"
    /\ UNCHANGED <<pConversationId, pTurnId, pConversationNodes, pGroups, mergeVars, sysVars,
                   growVars, callVars, pageVars>>

NextPlan == Plan

SpecPlan == InitPlan /\ [][NextPlan]_vars

\* ------------------------------------------------------------------------
\* The fork-node store behind ForkNodesService (section 6 of the specification)
\* ------------------------------------------------------------------------

IndexRemove(index, k) == [x \in (DOMAIN index) \ {k} |-> index[x]]

\* getForConversation(conversationId)
getForConversation(data, conversationId) == ConversationNodesOf(data.nodes, conversationId)

\* the nodes of group g that the keys of groups[g] name
RECURSIVE GroupNodesFromKeys(_, _, _, _)
GroupNodesFromKeys(data, g, keys, i) ==
    IF i > Len(keys) THEN <<>>
    ELSE SelectSeq(ConversationNodesOf(data.nodes, keys[i][1]),
                   LAMBDA n : n.turnId = keys[i][2] /\ n.forkGroupId = g)
         \o GroupNodesFromKeys(data, g, keys, i + 1)

\* getGroup(forkGroupId)
getGroup(data, g) ==
    GroupNodesFromKeys(data, g, IF g \in DOMAIN data.groups THEN data.groups[g] ELSE <<>>, 1)

\* addForkNode: whether the node is newly added, not a duplicate of an identity
storeAdded(data, node) ==
    \A n \in NodeSetOf(data.nodes) : IdentityOf(n) # IdentityOf(node)

\* addForkNode: the store afterwards
storeAdd(data, node) ==
    IF storeAdded(data, node)
    THEN ForkNodesData(
             IndexSet(data.nodes, node.conversationId,
                      Append(ConversationNodesOf(data.nodes, node.conversationId), node)),
             InsertGroupKey(data.groups, node))
    ELSE data

\* an index without the keys whose list is empty
DropEmpty(index) == [k \in {x \in DOMAIN index : index[x] # <<>>} |-> index[k]]

\* removeForkNode(conversationId, turnId, forkGroupId): the store afterwards
storeRemove(data, conversationId, turnId, forkGroupId) ==
    LET id == <<conversationId, turnId, forkGroupId>>
        nodes == [c \in DOMAIN data.nodes |->
                     SelectSeq(data.nodes[c], LAMBDA n : IdentityOf(n) # id)]
        groups == [g \in DOMAIN data.groups |->
                     IF g = forkGroupId
                     THEN SelectSeq(data.groups[g], LAMBDA k : k # <<conversationId, turnId>>)
                     ELSE data.groups[g]]
    IN  ForkNodesData(DropEmpty(nodes), DropEmpty(groups))

\* ------------------------------------------------------------------------
\* index.ts : executeFork, watchForNewConversation
\* ------------------------------------------------------------------------

\* the ids generateUniqueId('fork') hands out, one reserved for each fork
FreshGroups == <<"fork-a", "fork-b", "fork-c", "fork-d", "fork-e", "fork-f">>

\* the conversations that exist: the first one and those forks have created
ExistingConversations == {ConversationOrder[i] : i \in 1..(1 + created)}

\* the user turns a fork button is clicked on
ForkTurnIndexes == {0, 1}

FirstTurnId == <<"u", "-", "0">>

\* lines 585-596: the groups of the nodes on the turn, each read with getGroup
CandidateGroups(data, conversationNodes, turnId) ==
    LET ids == {n.forkGroupId : n \in Range(SameTurnNodes(turnId, conversationNodes))}
    IN  [g \in ids |-> getGroup(data, g)]

\* lines 598-604: the plan executeFork stores in the pending fork
ForkPlanOf(data, conversationId, turnId, freshGroupId) ==
    LET conversationNodes == getForConversation(data, conversationId)
    IN  resolveForkPlan(conversationId, turnId, conversationNodes,
                        CandidateGroups(data, conversationNodes, turnId), freshGroupId)

\* executeFork: the plan is resolved against the store and kept as the pending
\* fork of the tab it opens
ExecuteFork(r, conversationId, turnIndex) ==
    /\ forkCount < MaxForks
    /\ conversationId \in ExistingConversations
    /\ LET turnId == makeStableTurnId(turnIndex)
           plan == ForkPlanOf(store[r], conversationId, turnId, FreshGroups[forkCount + 1])
       IN  pending' = pending \cup
               {[id |-> forkCount + 1,
                 replica |-> r,
                 sourceConversationId |-> conversationId,
                 sourceTurnId |-> turnId,
                 forkGroupId |-> plan.forkGroupId,
                 sourceForkIndex |-> plan.sourceForkIndex,
                 nextForkIndex |-> plan.nextForkIndex,
                 phase |-> "pending",
                 newConversationId |-> ""]}
    /\ forkCount' = forkCount + 1
    /\ UNCHANGED <<store, created, removes, syncs, branches>>

\* lines 756-764
SourceNodeOf(p, now) ==
    ForkNode(p.sourceTurnId, p.sourceConversationId, "title", p.forkGroupId,
             p.sourceForkIndex, now)

\* lines 769-777
NewNodeOf(p, now) ==
    ForkNode(FirstTurnId, p.newConversationId, "title", p.forkGroupId, p.nextForkIndex, now)

\* checkUrl, lines 744-765: the URL of the tab now names conversation newConvId
\* (one the submission created, or one that existed and the user opened); the
\* source node is added
DetectConversation(p, newConvId) ==
    /\ p.phase = "pending"
    /\ store' = [store EXCEPT ![p.replica] = storeAdd(@, SourceNodeOf(p, forkCount))]
    /\ pending' = (pending \ {p}) \cup
                      {[p EXCEPT !.phase = "source", !.newConversationId = newConvId]}
    /\ created' = (IF newConvId \in ExistingConversations THEN created ELSE created + 1)
    /\ UNCHANGED <<forkCount, removes, syncs, branches>>

\* checkUrl, lines 767-778: the node of the new conversation is added
AddNewNode(p) ==
    /\ p.phase = "source"
    /\ LET newNode == NewNodeOf(p, forkCount)
       IN  /\ store' = [store EXCEPT ![p.replica] = storeAdd(@, newNode)]
           /\ branches' = IF storeAdded(store[p.replica], newNode)
                          THEN branches \cup {IdentityOf(newNode)}
                          ELSE branches
    /\ pending' = pending \ {p}
    /\ UNCHANGED <<forkCount, created, removes, syncs>>

\* the delete button of an indicator, lines 910-918: removeForkNode
RemoveNode(r, node) ==
    /\ removes < MaxRemoves
    /\ store' = [store EXCEPT ![r] =
                    storeRemove(@, node.conversationId, node.turnId, node.forkGroupId)]
    /\ removes' = removes + 1
    /\ UNCHANGED <<pending, forkCount, created, syncs, branches>>

\* a sync: both replicas are replaced by their merge (section 5)
Sync ==
    /\ syncs < MaxSyncs
    /\ store' = [r \in Replicas |-> mergeForkNodes(store["local"], store["cloud"])]
    /\ syncs' = syncs + 1
    /\ UNCHANGED <<pending, forkCount, created, removes, branches>>

\* a store that already holds one earlier fork: conv1 branched at its first turn
\* into conv2
SeedGroup == "fork-0"

SeedSource == ForkNode(FirstTurnId, "conv1", "title", SeedGroup, 0, 0)

SeedBranch == ForkNode(FirstTurnId, "conv2", "title", SeedGroup, 1, 0)

SeedStore == storeAdd(storeAdd(EmptyData, SeedSource), SeedBranch)

\* the persisted store when the content script starts: empty, or one fork old
InitStore ==
    \/ /\ store = [r \in Replicas |-> EmptyData]
       /\ created = 0
       /\ branches = {}
    \/ /\ store = [r \in Replicas |-> SeedStore]
       /\ created = 1
       /\ branches = {IdentityOf(SeedBranch)}

Init ==
    /\ InitStore
    /\ pending = {}
    /\ forkCount = 0 /\ removes = 0 /\ syncs = 0
    /\ MergeIdle /\ PlanIdle /\ GrowIdle /\ CallsIdle /\ PageIdle

Others == UNCHANGED <<mergeVars, planVars, growVars, callVars, pageVars>>

\* one device: forks from several tabs interleave on its store
Next ==
    \/ \E c \in Range(ConversationOrder), t \in ForkTurnIndexes :
           ExecuteFork("local", c, t) /\ Others
    \/ \E p \in pending :
           \E c \in ExistingConversations \cup {ConversationOrder[2 + created]} :
               DetectConversation(p, c) /\ Others
    \/ \E p \in pending : AddNewNode(p) /\ Others
    \/ \E node \in NodeSetOf(store["local"].nodes) : RemoveNode("local", node) /\ Others

Spec == Init /\ [][Next]_vars

\* two replicas: forks one at a time on either of them, removals, merges
NextSync ==
    \/ \E r \in Replicas, c \in Range(ConversationOrder), t \in ForkTurnIndexes :
           pending = {} /\ ExecuteFork(r, c, t) /\ Others
    \/ \E p \in pending :
           \E c \in ExistingConversations \cup {ConversationOrder[2 + created]} :
               DetectConversation(p, c) /\ Others
    \/ \E p \in pending : AddNewNode(p) /\ Others
    \/ \E r \in Replicas : \E node \in NodeSetOf(store[r].nodes) :
           RemoveNode(r, node) /\ Others
    \/ Sync /\ Others

SpecSync == Init /\ [][NextSync]_vars

\* ------------------------------------------------------------------------
\* SpecGrow : repeated plans for one fork group whose node list only grows
\* ------------------------------------------------------------------------

GrowGroup == "fork-1"

\* the conversation the k-th fork of the group creates
GrowConversation(k) == ConversationOrder[3 + k]

\* Array.prototype.filter: the nodes of the list that belong to conversationId
GrowConversationNodes(nodes, conversationId) ==
    SelectSeq(nodes, LAMBDA node : node.conversationId = conversationId)

InitGrow ==
    /\ gNodes \in PlanGroupLists(GrowGroup) \ {<<>>}
    /\ gCalls = 0
    /\ MergeIdle /\ PlanIdle /\ SysIdle /\ CallsIdle /\ PageIdle

\* a fork at the turn of the member gNodes[m]: the plan is resolved against the
\* whole list, and the node of the new conversation is recorded with the
\* returned nextForkIndex before any other plan is made
GrowFork(m, turnId) ==
    /\ gCalls < MaxCalls
    /\ LET member == gNodes[m]
           plan == resolveForkPlan(member.conversationId, turnId,
                                   GrowConversationNodes(gNodes, member.conversationId),
                                   [g \in {GrowGroup} |-> gNodes], FreshGroupId)
       IN  /\ plan.forkGroupId = GrowGroup
           /\ gNodes' = Append(gNodes,
                               ForkNode(FirstTurnId, GrowConversation(gCalls + 1), "Conversation",
                                        plan.forkGroupId, plan.nextForkIndex, 1))
    /\ gCalls' = gCalls + 1
    /\ UNCHANGED <<mergeVars, planVars, sysVars, callVars, pageVars>>

NextGrow ==
    \E m \in 1..Len(gNodes) :
        \E turnId \in {gNodes[m].turnId, normalizeTurnId(gNodes[m].turnId)} :
            GrowFork(m, turnId)

SpecGrow == InitGrow /\ [][NextGrow]_vars

\* ------------------------------------------------------------------------
\* SpecDisplay : buildBranchDisplayNodes applied to bounded arguments
\* ------------------------------------------------------------------------

\* createNode of the tests: a node of a group with the given index and time
DisplayNode(conversationId, forkGroupId, forkIndex, createdAt) ==
    ForkNode(TurnU0, conversationId, "Conversation 1", forkGroupId, forkIndex, createdAt)

\* groupA and groupB of the test
TestGroupA ==
    <<DisplayNode("conv-1", "group-a", 0, 100), DisplayNode("conv-2", "group-a", 1, 200)>>

TestGroupB ==
    <<DisplayNode("conv-1", "group-b", 0, 100), DisplayNode("conv-3", "group-b", 1, 300)>>

\* the nodes the lists are drawn from: those of the test, and nodes that
\* collide with them on the conversation with a smaller or larger index or time
DisplayNodes ==
    Range(TestGroupA) \cup Range(TestGroupB)
    \cup {DisplayNode("conv-1", "group-b", 1, 50),
          DisplayNode("conv-2", "group-b", 1, 100),
          DisplayNode("conv-2", "group-b", 0, 300)}

\* the node lists of at most n nodes
RECURSIVE DisplayLists(_)
DisplayLists(n) ==
    IF n = 0 THEN {<<>>}
    ELSE LET shorter == DisplayLists(n - 1)
         IN  shorter \cup {Append(l, node) : l \in shorter, node \in DisplayNodes}

\* Array.prototype.flat
RECURSIVE Flat(_)
Flat(lists) == IF lists = <<>> THEN <<>> ELSE Head(lists) \o Flat(Tail(lists))

\* mutation of MapGet: the entries are keyed by conversation and group
RECURSIVE MapGetByGroup(_, _, _)
MapGetByGroup(map, node, i) ==
    IF i > Len(map) THEN 0
    ELSE IF map[i].conversationId = node.conversationId
            /\ map[i].forkGroupId = node.forkGroupId
         THEN i
         ELSE MapGetByGroup(map, node, i + 1)

\* dedupedByConversation.get(node.conversationId): the position of the entry in
\* insertion order, 0 when the map has none
RECURSIVE MapGet(_, _, _)
MapGet(map, node, i) ==
    IF i > Len(map) THEN 0
    ELSE IF map[i].conversationId = node.conversationId THEN i
         ELSE MapGet(map, node, i + 1)

\* mutation of ReplacesExisting: a later node of equal index and time replaces
ReplacesExistingOnTie(node, existing) ==
    \/ node.forkIndex < existing.forkIndex
    \/ node.forkIndex = existing.forkIndex /\ node.createdAt <= existing.createdAt

\* lines 65-72: whether node takes the place of the entry of its conversation
ReplacesExisting(node, existing) ==
    \/ node.forkIndex < existing.forkIndex
    \/ node.forkIndex = existing.forkIndex /\ node.createdAt < existing.createdAt

\* the loop of lines 58-73 from node i on; Map.set on an existing key keeps
\* the key's place in the iteration order
RECURSIVE DedupeFrom(_, _, _)
DedupeFrom(map, flat, i) ==
    IF i > Len(flat) THEN map
    ELSE LET node == flat[i]
             at == MapGet(map, node, 1)
         IN  IF at = 0 THEN DedupeFrom(Append(map, node), flat, i + 1)
             ELSE IF ReplacesExisting(node, map[at])
                  THEN DedupeFrom([map EXCEPT ![at] = node], flat, i + 1)
                  ELSE DedupeFrom(map, flat, i + 1)

\* mutation of DisplayCompare: the time does not break ties
DisplayCompareIndexOnly(a, b) == a.forkIndex - b.forkIndex

\* the comparator of lines 75-78
DisplayCompare(a, b) ==
    IF a.forkIndex # b.forkIndex THEN a.forkIndex - b.forkIndex
    ELSE a.createdAt - b.createdAt

\* node inserted into the sorted list after the entries that do not follow it
RECURSIVE SortInsert(_, _)
SortInsert(sorted, node) ==
    IF sorted = <<>> THEN <<node>>
    ELSE IF DisplayCompare(Head(sorted), node) <= 0
         THEN <<Head(sorted)>> \o SortInsert(Tail(sorted), node)
         ELSE <<node>> \o sorted

\* Array.prototype.sort with the comparator: a stable sort
RECURSIVE SortNodes(_)
SortNodes(nodes) ==
    IF nodes = <<>> THEN <<>>
    ELSE SortInsert(SortNodes(SubSeq(nodes, 1, Len(nodes) - 1)), nodes[Len(nodes)])

buildBranchDisplayNodes(groupNodesList) ==
    SortNodes(DedupeFrom(<<>>, Flat(groupNodesList), 1))

\* the argument: one list, or two
InitDisplay ==
    /\ dGroups \in {<<a>> : a \in DisplayLists(MaxListLen)}
                   \cup {<<a, b>> : a \in DisplayLists(MaxListLen), b \in DisplayLists(MaxListLen)}
    /\ dOut = <<>>
    /\ dPc = "input"
    /\ CoreIdle /\ PageIdle /\ MarkdownIdle /\ TurnIdle /\ ContextIdle /\ ServiceIdle

Display ==
    /\ dPc = "input"
    /\ dOut' = buildBranchDisplayNodes(dGroups)
    /\ dPc' = "built"
    /\ UNCHANGED <<dGroups, coreVars, pageVars, markdownVars, turnVars, contextVars, serviceVars>>

NextDisplay == Display

SpecDisplay == InitDisplay /\ [][NextDisplay]_vars

\* ------------------------------------------------------------------------
\* markdown.ts : buildForkMarkdown (SpecMarkdown)
\* ------------------------------------------------------------------------

\* a turn as extracted: its user text and, when there is one, its assistant text
ForkExtractedTurn(user, assistant) == [user |-> user, assistant |-> assistant]

UserOnlyTurn(user) == [user |-> user]

HasAssistant(turn) == "assistant" \in DOMAIN turn

\* turn.assistant = text
WithAssistant(turn, text) == [user |-> turn.user, assistant |-> text]

\* '### 👤 User' and '### 🤖 Assistant', each emoji one character named by its
\* code point
UserHeading == <<"#", "#", "#", " ", "U+1F464", " ", "U", "s", "e", "r">>

AssistantHeading ==
    <<"#", "#", "#", " ", "U+1F916", " ", "A", "s", "s", "i", "s", "t", "a", "n", "t">>

Untitled == <<"U", "n", "t", "i", "t", "l", "e", "d">>

\* `# ${title || 'Untitled'}`
TitleLine(title) == <<"#", " ">> \o (IF title = <<>> THEN Untitled ELSE title)

\* mutation of NormalizedTurns: the assistant text of the first turn is cleared
NormalizedTurnsFirst(turns, dropLastAssistant) ==
    IF dropLastAssistant /\ Len(turns) > 0
    THEN [turns EXCEPT ![1] = WithAssistant(@, <<>>)]
    ELSE turns

\* lines 13-16: the copies of the turns, the last without its assistant text
\* when dropLastAssistant
NormalizedTurns(turns, dropLastAssistant) ==
    IF dropLastAssistant /\ Len(turns) > 0
    THEN [turns EXCEPT ![Len(turns)] = WithAssistant(@, <<>>)]
    ELSE turns

\* lines 23-33: the lines pushed for one turn
TurnLines(turn) ==
    <<UserHeading, <<>>, turn.user, <<>>>>
    \o (IF HasAssistant(turn) /\ Trim(turn.assistant) # <<>>
        THEN <<AssistantHeading, <<>>, turn.assistant, <<>>>>
        ELSE <<>>)

RECURSIVE AllTurnLines(_)
AllTurnLines(turns) ==
    IF turns = <<>> THEN <<>> ELSE TurnLines(Head(turns)) \o AllTurnLines(Tail(turns))

\* Array.prototype.join('\n')
RECURSIVE JoinLines(_)
JoinLines(lines) ==
    IF lines = <<>> THEN <<>>
    ELSE IF Len(lines) = 1 THEN lines[1]
    ELSE lines[1] \o <<"\n">> \o JoinLines(Tail(lines))

\* buildForkMarkdown: the string returned, and the turns array of the caller
\* after the call (the assignment of line 15 is made on the copies of line 13)
buildForkMarkdownRun(title, turns, dropLastAssistant) ==
    IF Len(turns) = 0 THEN [out |-> <<>>, turns |-> turns]
    ELSE LET normalizedTurns == NormalizedTurns(turns, dropLastAssistant)
             lines == <<TitleLine(title), <<>>>> \o AllTurnLines(normalizedTurns)
         IN  [out |-> JoinLines(lines), turns |-> turns]

buildForkMarkdown(title, turns, dropLastAssistant) ==
    buildForkMarkdownRun(title, turns, dropLastAssistant).out

MarkdownTitles == {<<>>, <<"T">>}

MarkdownUserTexts == {<<>>, <<"q">>}

\* assistant texts: empty, blank, a text of its own, the text of a user message
MarkdownAssistantTexts == {<<>>, <<" ">>, <<"b">>, <<"q">>}

MarkdownTurns ==
    {UserOnlyTurn(u) : u \in MarkdownUserTexts}
    \cup {ForkExtractedTurn(u, a) : u \in MarkdownUserTexts, a \in MarkdownAssistantTexts}

\* the turn lists of at most n turns
RECURSIVE MarkdownTurnLists(_)
MarkdownTurnLists(n) ==
    IF n = 0 THEN {<<>>}
    ELSE LET shorter == MarkdownTurnLists(n - 1)
         IN  shorter \cup {Append(l, turn) : l \in shorter, turn \in MarkdownTurns}

InitMarkdown ==
    /\ mdArgs \in [title : MarkdownTitles, turns : MarkdownTurnLists(MaxTurns),
                   dropLastAssistant : BOOLEAN]
    /\ mdTurns = mdArgs.turns
    /\ mdOut = <<>>
    /\ mdPc = "input"
    /\ CoreIdle /\ PageIdle /\ DisplayIdle /\ TurnIdle /\ ContextIdle /\ ServiceIdle

Markdown ==
    /\ mdPc = "input"
    /\ LET run == buildForkMarkdownRun(mdArgs.title, mdTurns, mdArgs.dropLastAssistant)
       IN  mdOut' = run.out /\ mdTurns' = run.turns
    /\ mdPc' = "built"
    /\ UNCHANGED <<mdArgs, coreVars, pageVars, displayVars, turnVars, contextVars, serviceVars>>

NextMarkdown == Markdown

SpecMarkdown == InitMarkdown /\ [][NextMarkdown]_vars

\* ------------------------------------------------------------------------
\* SpecTurn : normalizeTurnId applied to bounded strings
\* ------------------------------------------------------------------------

\* the characters of the strings: those of a user turn id, a letter, white space
TurnIdChars == {"u", "-", "1", "a", " ", "\n"}

\* the strings of at most n characters
RECURSIVE TurnIdStrings(_)
TurnIdStrings(n) ==
    IF n = 0 THEN {<<>>}
    ELSE LET shorter == TurnIdStrings(n - 1)
         IN  shorter \cup {Append(s, c) : s \in shorter, c \in TurnIdChars}

InitTurn ==
    /\ tRaw \in TurnIdStrings(MaxIdLen)
    /\ tOut = <<>>
    /\ tPc = "input"
    /\ CoreIdle /\ PageIdle /\ DisplayIdle /\ MarkdownIdle /\ ContextIdle /\ ServiceIdle

Normalize ==
    /\ tPc = "input"
    /\ tOut' = normalizeTurnId(tRaw)
    /\ tPc' = "done"
    /\ UNCHANGED <<tRaw, coreVars, pageVars, displayVars, markdownVars, contextVars, serviceVars>>

NextTurn == Normalize

SpecTurn == InitTurn /\ [][NextTurn]_vars

\* ------------------------------------------------------------------------
\* forkContext : normalizeLanguage, composeForkInputWithContext (SpecContext)
\* ------------------------------------------------------------------------

\* ForkLanguage
ForkLanguages == {"en", "ar", "es", "fr", "ja", "ko", "pt", "ru", "zh", "zh_TW"}

\* a language argument: left out (undefined), or a string
NoLanguage == [given |-> FALSE]

LanguageOf(value) == [given |-> TRUE, value |-> value]

UpperCase == <<"A", "C", "F", "H", "N", "R", "T", "W", "Z">>

LowerCase == <<"a", "c", "f", "h", "n", "r", "t", "w", "z">>

\* String.prototype.toLowerCase, one character
LowerChar(c) ==
    IF \E i \in 1..Len(UpperCase) : UpperCase[i] = c
    THEN LowerCase[CHOOSE i \in 1..Len(UpperCase) : UpperCase[i] = c]
    ELSE c

ToLowerCase(s) == [i \in 1..Len(s) |-> LowerChar(s[i])]

\* String.prototype.startsWith
StartsWith(s, prefix) == Len(s) >= Len(prefix) /\ SubSeq(s, 1, Len(prefix)) = prefix

\* mutation of normalizeLanguage: the "zh" prefix is tested before the Taiwan
\* variant
normalizeLanguageZhFirst(raw) ==
    IF ~raw.given \/ raw.value = <<>> THEN "en"
    ELSE LET value == Trim(raw.value)
         IN  IF StartsWith(value, <<"z", "h">>) THEN "zh"
             ELSE IF value = <<"z", "h", "_", "T", "W">>
                     \/ ToLowerCase(value) = <<"z", "h", "-", "t", "w">> THEN "zh_TW"
             ELSE IF StartsWith(value, <<"a", "r">>) THEN "ar"
             ELSE IF StartsWith(value, <<"e", "s">>) THEN "es"
             ELSE IF StartsWith(value, <<"f", "r">>) THEN "fr"
             ELSE IF StartsWith(value, <<"j", "a">>) THEN "ja"
             ELSE IF StartsWith(value, <<"k", "o">>) THEN "ko"
             ELSE IF StartsWith(value, <<"p", "t">>) THEN "pt"
             ELSE IF StartsWith(value, <<"r", "u">>) THEN "ru"
             ELSE "en"

normalizeLanguage(raw) ==
    IF ~raw.given \/ raw.value = <<>> THEN "en"
    ELSE LET value == Trim(raw.value)
         IN  IF value = <<"z", "h", "_", "T", "W">>
                \/ ToLowerCase(value) = <<"z", "h", "-", "t", "w">> THEN "zh_TW"
             ELSE IF StartsWith(value, <<"z", "h">>) THEN "zh"
             ELSE IF StartsWith(value, <<"a", "r">>) THEN "ar"
             ELSE IF StartsWith(value, <<"e", "s">>) THEN "es"
             ELSE IF StartsWith(value, <<"f", "r">>) THEN "fr"
             ELSE IF StartsWith(value, <<"j", "a">>) THEN "ja"
             ELSE IF StartsWith(value, <<"k", "o">>) THEN "ko"
             ELSE IF StartsWith(value, <<"p", "t">>) THEN "pt"
             ELSE IF StartsWith(value, <<"r", "u">>) THEN "ru"
             ELSE "en"

\* CONTEXT_PREFIX: the instruction block of each language, held as one
\* character that names the block
CONTEXT_PREFIX ==
    [language \in ForkLanguages |-> <<[block |-> "CONTEXT_PREFIX", language |-> language]>>]

\* '\n# Conversation History\n'
HistoryHeader ==
    <<"\n", "#", " ", "C", "o", "n", "v", "e", "r", "s", "a", "t", "i", "o", "n", " ",
      "H", "i", "s", "t", "o", "r", "y", "\n">>

\* composeForkInputWithContext: the language resolved and the string returned
composeForkInputWithContextRun(historyMarkdown, rawLanguage) ==
    LET language == normalizeLanguage(rawLanguage)
        prefix == IF language \in DOMAIN CONTEXT_PREFIX /\ CONTEXT_PREFIX[language] # <<>>
                  THEN CONTEXT_PREFIX[language]
                  ELSE CONTEXT_PREFIX["en"]
        normalizedHistory == Trim(historyMarkdown)
    IN  [language |-> language,
         out |-> prefix \o HistoryHeader \o normalizedHistory \o <<"\n">>]

composeForkInputWithContext(historyMarkdown, rawLanguage) ==
    composeForkInputWithContextRun(historyMarkdown, rawLanguage).out

\* the language hints: locale codes, regional forms, other cases, white space
LanguageHints ==
    {NoLanguage} \cup {LanguageOf(value) : value \in {
     <<>>,
     <<" ">>,
     <<"z", "h", "_", "T", "W">>,
     <<"z", "h", "-", "t", "w">>,
     <<"z", "h", "-", "T", "W">>,
     <<"Z", "H", "-", "T", "W">>,
     <<"z", "h", "_", "t", "w">>,
     <<" ", "z", "h", "-", "T", "W", " ">>,
     <<"z", "h", "_", "T", "W", ".", "U", "T", "F", "-", "8">>,
     <<"z", "h">>,
     <<"z", "h", "-", "C", "N">>,
     <<"z", "h", "-", "H", "a", "n", "t">>,
     <<"Z", "h">>,
     <<"a", "r">>,
     <<"a", "r", "-", "S", "A">>,
     <<"e", "s">>,
     <<"e", "s", "-", "E", "S">>,
     <<"f", "r">>,
     <<"f", "r", "-", "F", "R">>,
     <<" ", "f", "r">>,
     <<"F", "R">>,
     <<"j", "a">>,
     <<"j", "a", "-", "J", "P">>,
     <<"k", "o">>,
     <<"p", "t">>,
     <<"p", "t", "-", "B", "R">>,
     <<"r", "u">>,
     <<"r", "u", "-", "R", "U">>,
     <<"e", "n">>,
     <<"e", "n", "-", "U", "S">>,
     <<"x", "x">>,
     <<"d", "e">>,
     <<"z">>,
     <<"f">>,
     <<"x", "-", "f", "r">>}}

\* the transcripts: with and without white space around them
ContextHistories ==
    {<<>>, <<"h">>, <<" ", "h", "\n">>, <<"\n", "#", " ", "t", "\n", "\n", "q", " ">>}

InitContext ==
    /\ cHistory \in ContextHistories
    /\ cRawLanguage \in LanguageHints
    /\ cLanguage = ""
    /\ cOut = <<>>
    /\ cPc = "input"
    /\ CoreIdle /\ PageIdle /\ DisplayIdle /\ MarkdownIdle /\ TurnIdle /\ ServiceIdle

Compose ==
    /\ cPc = "input"
    /\ LET run == composeForkInputWithContextRun(cHistory, cRawLanguage)
       IN  cLanguage' = run.language /\ cOut' = run.out
    /\ cPc' = "done"
    /\ UNCHANGED <<cHistory, cRawLanguage, coreVars, pageVars, displayVars, markdownVars, turnVars,
                   serviceVars>>

NextContext == Compose

SpecContext == InitContext /\ [][NextContext]_vars

\* ------------------------------------------------------------------------
\* ForkNodesService.ts : sendMessage and the service methods (SpecService)
\* ------------------------------------------------------------------------

\* promises
Pending == [state |-> "pending"]

Fulfilled(value) == [state |-> "fulfilled", value |-> value]

Rejected(message) == [state |-> "rejected", message |-> message]

\* chrome.runtime.lastError during the callback
NoLastError == [set |-> FALSE]

LastError(message) == [set |-> TRUE, message |-> message]

\* the callback invoked without a response
NoResponse == [undefined |-> TRUE]

\* response.field: a value, or undefined when the response does not hold it
Undefined == [type |-> "undefined"]

ValueOf(value) == [type |-> "value", value |-> value]

FieldOf(response, field) ==
    IF field \in DOMAIN response THEN ValueOf(response[field]) ELSE Undefined

\* the truthiness of a field that is a boolean or undefined
IsTrue(field) == field.type = "value" /\ field.value = TRUE

\* response?.error || 'Unknown error'
ErrorOf(response) ==
    IF "error" \in DOMAIN response /\ response.error # ""
    THEN response.error
    ELSE "Unknown error"

\* mutation of sendMessageCallback: lastError is not looked at
sendMessageCallbackBlind(lastError, response) ==
    IF IsTrue(FieldOf(response, "ok")) THEN Fulfilled(response)
    ELSE Rejected(ErrorOf(response))

\* lines 11-21: how the callback of chrome.runtime.sendMessage settles the
\* promise of sendMessage
sendMessageCallback(lastError, response) ==
    IF lastError.set THEN Rejected(lastError.message)
    ELSE IF IsTrue(FieldOf(response, "ok")) THEN Fulfilled(response)
    ELSE Rejected(ErrorOf(response))

\* resolve and reject of a promise settle it only while it is pending
Settle(promise, settled) == IF promise.state = "pending" THEN settled ELSE promise

\* the calls: their method, the type of their message, its payload
IdentityPayload(conversationId, turnId, forkGroupId) ==
    [conversationId |-> conversationId, turnId |-> turnId, forkGroupId |-> forkGroupId]

ServiceNode == ForkNode(TurnU0, "conv1", "Test Conversation", "fork-group-1", 0, 1000)

ServiceCalls ==
    {[method |-> "addForkNode", type |-> "gv.fork.add", payload |-> ServiceNode],
     [method |-> "removeForkNode", type |-> "gv.fork.remove",
      payload |-> IdentityPayload("conv1", TurnU0, "fork-group-1")],
     [method |-> "getAllForkNodes", type |-> "gv.fork.getAll", payload |-> Undefined],
     [method |-> "getForConversation", type |-> "gv.fork.getForConversation",
      payload |-> [conversationId |-> "conv1"]],
     [method |-> "getGroup", type |-> "gv.fork.getGroup",
      payload |-> [forkGroupId |-> "fork-group-1"]]}

\* the field of the response a method returns, and the event it emits
ResultField ==
    [addForkNode |-> "added", removeForkNode |-> "removed", getAllForkNodes |-> "data",
     getForConversation |-> "nodes", getGroup |-> "nodes"]

EventName == [addForkNode |-> "fork:added", removeForkNode |-> "fork:removed"]

\* eventBus.emit(name, {conversationId, turnId, forkGroupId})
EventOf(call) ==
    [name |-> EventName[call.method],
     detail |-> IdentityPayload(call.payload.conversationId, call.payload.turnId,
                                call.payload.forkGroupId)]

\* mutation of EmittedBy: the event is emitted whatever the response says
EmittedAlways(call, response) ==
    IF call.method \in DOMAIN EventName THEN <<EventOf(call)>> ELSE <<>>

\* lines 31-37 and 51-53: the events a method emits once the response is in
EmittedBy(call, response) ==
    IF call.method \in DOMAIN EventName /\ IsTrue(FieldOf(response, ResultField[call.method]))
    THEN <<EventOf(call)>>
    ELSE <<>>

\* the responses the store may give: failures with and without a message,
\* boolean outcomes, data, and responses that lack a field
StoreResponses ==
    {[ok |-> FALSE], [ok |-> FALSE, error |-> "Storage full"], [ok |-> FALSE, error |-> ""],
     [error |-> "No handler"], [added |-> TRUE], [removed |-> TRUE],
     [ok |-> TRUE],
     [ok |-> TRUE, added |-> TRUE], [ok |-> TRUE, added |-> FALSE],
     [ok |-> TRUE, removed |-> TRUE], [ok |-> TRUE, removed |-> FALSE],
     [ok |-> TRUE, data |-> SeedStore], [ok |-> TRUE, nodes |-> <<ServiceNode>>]}

TransportErrors == {"Extension context invalidated", "The message port closed"}

InitService ==
    /\ sCall \in ServiceCalls
    /\ sRuntime = <<>>
    /\ sSent = NoPromise
    /\ sResult = NoPromise
    /\ sEvents = <<>>
    /\ sSettles = 0
    /\ sPc = "call"
    /\ CoreIdle /\ PageIdle /\ DisplayIdle /\ MarkdownIdle /\ TurnIdle /\ ContextIdle

ServiceOthers == UNCHANGED <<coreVars, pageVars, displayVars, markdownVars, turnVars, contextVars>>

\* the method is called: it returns its promise, and sendMessage hands the
\* message to chrome.runtime.sendMessage, which returns
Send ==
    /\ sPc = "call"
    /\ sRuntime' = <<[message |-> [type |-> sCall.type, payload |-> sCall.payload]]>>
    /\ sSent' = Pending
    /\ sResult' = Pending
    /\ sPc' = "sent"
    /\ UNCHANGED <<sCall, sEvents, sSettles>>

\* the method is called and chrome.runtime.sendMessage throws: lines 22-24
SendThrows(message) ==
    /\ sPc = "call"
    /\ sRuntime' = <<[message |-> [type |-> sCall.type, payload |-> sCall.payload]],
                     [threw |-> message]>>
    /\ sSent' = Settle(Pending, Rejected(message))
    /\ sResult' = Pending
    /\ sPc' = "replied"
    /\ UNCHANGED <<sCall, sEvents, sSettles>>

\* the runtime invokes the callback: with a response, or with lastError set and
\* no response
Callback(lastError, response) ==
    /\ sPc = "sent"
    /\ sRuntime' = Append(sRuntime, [lastError |-> lastError, response |-> response])
    /\ sSent' = Settle(sSent, sendMessageCallback(lastError, response))
    /\ sPc' = "replied"
    /\ UNCHANGED <<sCall, sResult, sEvents, sSettles>>

\* the method resumes after its await: it throws what sendMessage rejected
\* with, or emits its event and returns the field of the response
Resume ==
    /\ sPc = "replied"
    /\ IF sSent.state = "rejected"
       THEN /\ sResult' = Settle(sResult, Rejected(sSent.message))
            /\ sEvents' = sEvents
       ELSE /\ sEvents' = sEvents \o EmittedBy(sCall, sSent.value)
            /\ sResult' = Settle(sResult,
                                 Fulfilled(FieldOf(sSent.value, ResultField[sCall.method])))
    /\ sSettles' = sSettles + (IF sResult.state = "pending" THEN 1 ELSE 0)
    /\ sPc' = "done"
    /\ UNCHANGED <<sCall, sRuntime, sSent>>

NextService ==
    \/ Send /\ ServiceOthers
    \/ \E message \in TransportErrors : SendThrows(message) /\ ServiceOthers
    \/ \E response \in StoreResponses : Callback(NoLastError, response) /\ ServiceOthers
    \/ \E message \in TransportErrors : Callback(LastError(message), NoResponse) /\ ServiceOthers
    \/ Resume /\ ServiceOthers

SpecService == InitService /\ [][NextService]_vars

\* the runtime invokes the callback of every message it accepted, and the
\* continuation of a settled promise is run
SpecServiceFair == SpecService /\ WF_vars(NextService)

\* ------------------------------------------------------------------------
\* fork/index.ts : checkConversationExists, pruneDeletedNodesFromGroup
\* (SpecPrune)
\* ------------------------------------------------------------------------

CONVERSATION_VERIFY_TIMEOUT_MS == 4000

CONVERSATION_EXISTENCE_CACHE_TTL_MS == 30000

\* conversationExistenceCache: a map from conversation id to its entry
NoEntry == [cached |-> FALSE]

CacheEntry(exists, checkedAt) == [cached |-> TRUE, exists |-> exists, checkedAt |-> checkedAt]

PruneConversations == {"conv1", "conv2"}

EmptyCache == [c \in PruneConversations |-> NoEntry]

CacheSet(cache, conversationId, exists, checkedAt) ==
    [cache EXCEPT ![conversationId] = CacheEntry(exists, checkedAt)]

\* mutation of CacheFresh: an entry is used whatever its age
CacheFreshAlways(cached, now) == cached.cached

\* line 377: cached && now - cached.checkedAt <= CONVERSATION_EXISTENCE_CACHE_TTL_MS
CacheFresh(cached, now) ==
    cached.cached /\ now - cached.checkedAt <= CONVERSATION_EXISTENCE_CACHE_TTL_MS

\* the verdict of checkConversationExists on a node: where it came from, and
\* what was read to reach it
Verdict(node, via, exists, now, current, cached) ==
    [conversationId |-> node.conversationId, via |-> via, exists |-> exists, now |-> now,
     current |-> current, cached |-> cached]

\* lines 368-384: checkConversationExists up to the request; settled is FALSE
\* when the request has to be made
checkConversationExistsSync(node, sidebarConversationIds, current, cache, now) ==
    LET id == node.conversationId
        cached == cache[id]
    IN  IF current # "" /\ id = current
        THEN [settled |-> TRUE, cache |-> cache,
              verdict |-> Verdict(node, "current", TRUE, now, current, cached)]
        ELSE IF id \in sidebarConversationIds
        THEN [settled |-> TRUE, cache |-> CacheSet(cache, id, TRUE, now),
              verdict |-> Verdict(node, "sidebar", TRUE, now, current, cached)]
        ELSE IF CacheFresh(cached, now)
        THEN [settled |-> TRUE, cache |-> cache,
              verdict |-> Verdict(node, "cache", cached.exists, now, current, cached)]
        ELSE IF node.conversationUrl = <<>>
        THEN [settled |-> TRUE, cache |-> CacheSet(cache, id, FALSE, now),
              verdict |-> Verdict(node, "no url", FALSE, now, current, cached)]
        ELSE [settled |-> FALSE, cache |-> cache,
              verdict |-> Verdict(node, "request", TRUE, now, current, cached)]

\* what becomes of the request: fetch rejects (network error, or abort by the
\* timer), or it resolves with a response: its ok flag and the conversation id
\* of its final URL ("" when the URL holds none)
FetchFailures == {[kind |-> "network error"], [kind |-> "timeout"]}

FetchResponses ==
    {[kind |-> "response", ok |-> ok, conversationId |-> id] :
        ok \in BOOLEAN, id \in PruneConversations \cup {""}}

\* mutation of checkConversationExistsFetched: a failed request counts as 'does
\* not exist'
checkConversationExistsFailClosed(node, outcome, cache, read) ==
    IF outcome \in FetchFailures
    THEN [cache |-> cache,
          verdict |-> Verdict(node, outcome.kind, FALSE, read.now, read.current, read.cached)]
    ELSE LET exists == outcome.ok /\ outcome.conversationId # ""
                       /\ node.conversationId = outcome.conversationId
         IN  [cache |-> CacheSet(cache, node.conversationId, exists, read.now),
              verdict |-> Verdict(node, "response", exists, read.now, read.current,
                                  read.cached)]

\* lines 388-405: checkConversationExists once the request is over; read holds
\* the time and the URL read before the request
checkConversationExistsFetched(node, outcome, cache, read) ==
    IF outcome \in FetchFailures
    THEN [cache |-> cache,
          verdict |-> Verdict(node, outcome.kind, TRUE, read.now, read.current, read.cached)]
    ELSE LET exists == outcome.ok /\ outcome.conversationId # ""
                       /\ node.conversationId = outcome.conversationId
         IN  [cache |-> CacheSet(cache, node.conversationId, exists, read.now),
              verdict |-> Verdict(node, "response", exists, read.now, read.current,
                                  read.cached)]

\* the nodes of the groups pruned: two with a URL, one without
PruneNodes ==
    {ForkNode(TurnU0, "conv1", "Conversation 1", "group-1", 0, 100),
     ForkNode(TurnU0, "conv2", "Conversation 2", "group-1", 1, 200),
     [ForkNode(TurnU1, "conv2", "Conversation 2", "group-2", 1, 300)
        EXCEPT !.conversationUrl = <<>>]}

PruneGroups ==
    {g \in UNION {[1..n -> PruneNodes] : n \in 1..MaxListLen} :
        \A i, j \in DOMAIN g : g[i] = g[j] => i = j}

PruneSidebars == {{}, {"conv2"}}

\* the most checks followed, the most times the clock advances
MaxChecks == 3

MaxTicks == 2

InitPrune ==
    /\ xCache = EmptyCache
    /\ xNow = 0
    /\ xTicks = 0
    /\ xCurrent = ""
    /\ xNodes = <<>>
    /\ xSidebar = {}
    /\ xIdx = 0
    /\ xCleaned = <<>>
    /\ xRemoved = <<>>
    /\ xVerdicts = <<>>
    /\ xRequest = <<>>
    /\ xChecks = 0
    /\ xPc = "idle"
    /\ CoreIdle /\ CallsIdle /\ WatchIdle /\ ExtractIdle /\ IndicatorIdle /\ ExecuteIdle

PruneOthers == UNCHANGED <<coreVars, callVars, watchVars, extractVars, indicatorVars, executeVars>>

\* lines 414-428: the loop body of pruneDeletedNodesFromGroup once the verdict
\* on the node is in: keep the node, or issue removeForkNode for it
PruneDecide(node, verdict) ==
    /\ xVerdicts' = Append(xVerdicts, verdict)
    /\ IF verdict.exists
       THEN /\ xCleaned' = Append(xCleaned, node)
            /\ xRemoved' = xRemoved
            /\ xIdx' = xIdx + 1
            /\ xPc' = "loop"
       ELSE /\ xCleaned' = xCleaned
            /\ xRemoved' = Append(xRemoved, IdentityPayload(node.conversationId, node.turnId,
                                                            node.forkGroupId))
            /\ xIdx' = xIdx
            /\ xPc' = "removing"

\* pruneDeletedNodesFromGroup(groupNodes, sidebarConversationIds) is called
StartPrune(groupNodes, sidebarConversationIds) ==
    /\ xPc = "idle"
    /\ xChecks < MaxChecks
    /\ xNodes' = groupNodes
    /\ xSidebar' = sidebarConversationIds
    /\ xIdx' = 1
    /\ xCleaned' = <<>>
    /\ xRemoved' = <<>>
    /\ xVerdicts' = <<>>
    /\ xPc' = "loop"
    /\ UNCHANGED <<xCache, xNow, xTicks, xCurrent, xRequest, xChecks>>

\* the loop calls checkConversationExists on the next node
CheckNode ==
    /\ xPc = "loop"
    /\ xIdx <= Len(xNodes)
    /\ xChecks < MaxChecks
    /\ xChecks' = xChecks + 1
    /\ LET node == xNodes[xIdx]
           run == checkConversationExistsSync(node, xSidebar, xCurrent, xCache, xNow)
       IN  /\ xCache' = run.cache
           /\ IF run.settled
              THEN /\ PruneDecide(node, run.verdict)
                   /\ xRequest' = xRequest
              ELSE /\ xRequest' = run.verdict
                   /\ xPc' = "fetching"
                   /\ UNCHANGED <<xIdx, xCleaned, xRemoved, xVerdicts>>
    /\ UNCHANGED <<xNow, xTicks, xCurrent, xNodes, xSidebar>>

\* the request is over; the timer aborts it no earlier than the timeout
FetchSettles(outcome) ==
    /\ xPc = "fetching"
    /\ outcome.kind = "timeout" => xNow - xRequest.now >= CONVERSATION_VERIFY_TIMEOUT_MS
    /\ LET node == xNodes[xIdx]
           run == checkConversationExistsFetched(node, outcome, xCache, xRequest)
       IN  /\ xCache' = run.cache
           /\ PruneDecide(node, run.verdict)
    /\ UNCHANGED <<xNow, xTicks, xCurrent, xNodes, xSidebar, xRequest, xChecks>>

\* removeForkNode resolves or rejects: the loop goes on either way
RemoveSettles ==
    /\ xPc = "removing"
    /\ xIdx' = xIdx + 1
    /\ xPc' = "loop"
    /\ UNCHANGED <<xCache, xNow, xTicks, xCurrent, xNodes, xSidebar, xCleaned, xRemoved,
                   xVerdicts, xRequest, xChecks>>

\* the loop is over: cleaned is returned
PruneReturns ==
    /\ xPc = "loop"
    /\ xIdx > Len(xNodes)
    /\ xPc' = "idle"
    /\ UNCHANGED <<xCache, xNow, xTicks, xCurrent, xNodes, xSidebar, xIdx, xCleaned, xRemoved,
                   xVerdicts, xRequest, xChecks>>

\* Date.now() advances
Tick(ms) ==
    /\ xTicks < MaxTicks
    /\ xTicks' = xTicks + 1
    /\ xNow' = xNow + ms
    /\ UNCHANGED <<xCache, xCurrent, xNodes, xSidebar, xIdx, xCleaned, xRemoved, xVerdicts,
                   xRequest, xChecks, xPc>>

\* the page moves to another conversation, or to none
Navigate(conversationId) ==
    /\ conversationId # xCurrent
    /\ xCurrent' = conversationId
    /\ UNCHANGED <<xCache, xNow, xTicks, xNodes, xSidebar, xIdx, xCleaned, xRemoved, xVerdicts,
                   xRequest, xChecks, xPc>>

NextPrune ==
    \/ \E g \in PruneGroups, ids \in PruneSidebars : StartPrune(g, ids) /\ PruneOthers
    \/ CheckNode /\ PruneOthers
    \/ \E outcome \in FetchFailures \cup FetchResponses : FetchSettles(outcome) /\ PruneOthers
    \/ RemoveSettles /\ PruneOthers
    \/ PruneReturns /\ PruneOthers
    \/ \E ms \in {1, CONVERSATION_EXISTENCE_CACHE_TTL_MS} : Tick(ms) /\ PruneOthers
    \/ \E c \in {"", "conv2"} : Navigate(c) /\ PruneOthers

SpecPrune == InitPrune /\ [][NextPrune]_vars

\* ------------------------------------------------------------------------
\* fork/index.ts : watchForNewConversation (SpecWatch)
\* ------------------------------------------------------------------------

\* window.location.href, as the conversation id of its path ("" when it holds
\* none) and its fragment
Url(conversationId, hash) == [conversationId |-> conversationId, hash |-> hash]

NewConversationPage == Url("", "")

WatchUrls == {NewConversationPage, Url("conv2", ""), Url("conv2", "#top"), Url("conv3", "")}

\* the pending forks watched: a first fork of conv1, and a further fork of a
\* group that has two branches
WatchPendings ==
    {[sourceConversationId |-> "conv1", sourceTurnId |-> TurnU1, forkGroupId |-> "fork-a",
      sourceForkIndex |-> 0, nextForkIndex |-> 1, newConversationId |-> ""],
     [sourceConversationId |-> "conv1", sourceTurnId |-> TurnU0, forkGroupId |-> "fork-0",
      sourceForkIndex |-> 0, nextForkIndex |-> 2, newConversationId |-> ""]}

\* how an addForkNode request ends
AddOutcomes == {"true", "false", "rejects"}

\* mutation of AwaitThrows: a rejected addForkNode does not end the run
AwaitNeverThrows(outcome) == FALSE

\* lines 765, 778, 782: the await of a rejected addForkNode throws into the catch
AwaitThrows(outcome) == outcome = "rejects"

\* the triggers of checkUrl and what each needs to be still on
WatchTriggers == {"mutation", "popstate", "hashchange", "poll"}

\* the most URL changes followed
MaxUrlChanges == 3

InitWatch ==
    /\ wPending \in WatchPendings
    /\ wUrl = NewConversationPage
    /\ wLastUrl = NewConversationPage
    /\ wObserving = TRUE
    /\ wListening = TRUE
    /\ wRuns = <<>>
    /\ wAdds = <<>>
    /\ wChanges = 0
    /\ CoreIdle /\ CallsIdle /\ PruneIdle /\ ExtractIdle /\ IndicatorIdle /\ ExecuteIdle

WatchOthers == UNCHANGED <<coreVars, callVars, pruneVars, extractVars, indicatorVars, executeVars>>

\* the page's URL changes: the submission created a conversation, the user
\* opened another one, the fragment changed
UrlChanges(url) ==
    /\ wChanges < MaxUrlChanges
    /\ url # wUrl
    /\ wUrl' = url
    /\ wChanges' = wChanges + 1
    /\ UNCHANGED <<wPending, wLastUrl, wObserving, wListening, wRuns, wAdds>>

\* lines 743-765: checkUrl runs and finds the URL changed (it returns at once
\* when it has not); with a conversation id in the URL it disconnects the
\* observer and submits the source node
CheckUrl(trigger) ==
    /\ IF trigger = "mutation" THEN wObserving ELSE wListening
    /\ wUrl # wLastUrl
    /\ wLastUrl' = wUrl
    /\ IF wUrl.conversationId = ""
       THEN UNCHANGED <<wObserving, wRuns, wAdds>>
       ELSE /\ wObserving' = FALSE
            /\ wRuns' = Append(wRuns, [newConvId |-> wUrl.conversationId, currentUrl |-> wUrl,
                                       pc |-> "source", source |-> "pending"])
            /\ wAdds' = Append(wAdds, [run |-> Len(wRuns) + 1, role |-> "source",
                                       node |-> SourceNodeOf(wPending, 0)])
    /\ UNCHANGED <<wPending, wUrl, wListening, wChanges>>

\* lines 765-778: the addForkNode of the source node settles; the run goes on
\* to submit the node of the new conversation, or lands in the catch
SourceSettles(r, outcome) ==
    /\ r \in DOMAIN wRuns
    /\ wRuns[r].pc = "source"
    /\ IF AwaitThrows(outcome)
       THEN /\ wRuns' = [wRuns EXCEPT ![r].pc = "failed", ![r].source = outcome]
            /\ wAdds' = wAdds
       ELSE /\ wRuns' = [wRuns EXCEPT ![r].pc = "new", ![r].source = outcome]
            /\ wAdds' = Append(wAdds,
                   [run |-> r, role |-> "new",
                    node |-> NewNodeOf([wPending EXCEPT
                                           !.newConversationId = wRuns[r].newConvId], 0)])
    /\ UNCHANGED <<wPending, wUrl, wLastUrl, wObserving, wListening, wChanges>>

\* lines 778-786: the addForkNode of the new node settles
NewSettles(r, outcome) ==
    /\ r \in DOMAIN wRuns
    /\ wRuns[r].pc = "new"
    /\ wRuns' = [wRuns EXCEPT ![r].pc = IF AwaitThrows(outcome) THEN "failed" ELSE "done"]
    /\ UNCHANGED <<wPending, wUrl, wLastUrl, wObserving, wListening, wAdds, wChanges>>

\* lines 804-809: the timer of 60 s takes the observer, the listeners and the
\* poll interval down
WatchEnds ==
    /\ wListening
    /\ wObserving' = FALSE
    /\ wListening' = FALSE
    /\ UNCHANGED <<wPending, wUrl, wLastUrl, wRuns, wAdds, wChanges>>

NextWatch ==
    \/ \E url \in WatchUrls : UrlChanges(url) /\ WatchOthers
    \/ \E trigger \in WatchTriggers : CheckUrl(trigger) /\ WatchOthers
    \/ \E r \in 1..MaxUrlChanges, outcome \in AddOutcomes : SourceSettles(r, outcome) /\ WatchOthers
    \/ \E r \in 1..MaxUrlChanges, outcome \in AddOutcomes : NewSettles(r, outcome) /\ WatchOthers
    \/ WatchEnds /\ WatchOthers

SpecWatch == InitWatch /\ [][NextWatch]_vars

\* ------------------------------------------------------------------------
\* chatPairs.ts : collectForkChatPairs; fork/index.ts : injectForkButtons,
\* ensureTurnId, extractConversationUpToTurn (SpecExtract)
\* ------------------------------------------------------------------------

\* a user element of the page after filterTopLevel and dedupeByTextAndOffset,
\* with the text extracted from it and from the assistant element matched to it
\* (empty when there is none)
UserElement(user, assistant) == [user |-> user, assistant |-> assistant]

\* chatPairs.ts lines 167-200: the loop over the user elements; i counts them
\* from 0, element is the position of the user element on the page
RECURSIVE CollectFrom(_, _)
CollectFrom(users, i) ==
    IF i >= Len(users) THEN <<>>
    ELSE LET userEl == users[i + 1]
             turnId == makeStableTurnId(i)
         IN  (IF userEl.user # <<>> \/ userEl.assistant # <<>>
              THEN <<[turnId |-> turnId, user |-> userEl.user, assistant |-> userEl.assistant,
                      userElement |-> i + 1]>>
              ELSE <<>>) \o CollectFrom(users, i + 1)

collectForkChatPairs(users) == CollectFrom(users, 0)

\* ensureTurnId(el, index): the id it returns
ensureTurnId(index) == makeStableTurnId(index)

\* pairs.findIndex(pair => normalizeTurnId(pair.turnId) === normalizeTurnId(sourceTurnId)),
\* counted from 0, -1 when there is none
FindPairIndex(pairs, sourceTurnId) ==
    LET hits == {i \in 1..Len(pairs) :
                    normalizeTurnId(pairs[i].turnId) = normalizeTurnId(sourceTurnId)}
    IN  IF hits = {} THEN -1 ELSE (CHOOSE i \in hits : \A j \in hits : i <= j) - 1

\* extractConversationUpToTurn, lines 443-460; the title is that of the page
extractConversationUpToTurnRun(userTurnIndex, sourceTurnId, pairs, title) ==
    IF Len(pairs) = 0 THEN [out |-> <<>>, turns |-> <<>>]
    ELSE LET sourceIndex == FindPairIndex(pairs, sourceTurnId)
             targetIndex == IF sourceIndex >= 0 THEN sourceIndex ELSE userTurnIndex
             last == IF targetIndex < Len(pairs) THEN targetIndex + 1 ELSE Len(pairs)
             turns == [i \in 1..last |-> ForkExtractedTurn(pairs[i].user, pairs[i].assistant)]
         IN  [out |-> buildForkMarkdown(title, turns, TRUE), turns |-> turns]

\* the user elements of a page: the k-th has its own user text or none, and its
\* own assistant text or none
MaxUsers == 3

ExtractUserTexts(k) == {<<>>, <<"q">> \o ToDigits(k)}

ExtractAssistantTexts(k) == {<<>>, <<"b">> \o ToDigits(k)}

ExtractPages ==
    UNION {{users \in [1..n -> [user : UNION {ExtractUserTexts(k) : k \in 1..n},
                                assistant : UNION {ExtractAssistantTexts(k) : k \in 1..n}]] :
               \A k \in 1..n : /\ users[k].user \in ExtractUserTexts(k)
                               /\ users[k].assistant \in ExtractAssistantTexts(k)} :
           n \in 0..MaxUsers}

ExtractTitle == <<"T">>

InitExtract ==
    /\ eUsers \in ExtractPages
    /\ ePairs = <<>>
    /\ eIndex = 0
    /\ eTurnId = <<>>
    /\ eTurns = <<>>
    /\ eOut = <<>>
    /\ ePc = "page"
    /\ CoreIdle /\ CallsIdle /\ PruneIdle /\ WatchIdle /\ IndicatorIdle /\ ExecuteIdle

ExtractOthers == UNCHANGED <<coreVars, callVars, pruneVars, watchVars, indicatorVars, executeVars>>

\* injectForkButtons, lines 493-519: the pairs are collected and the button of
\* the pair at position index is given that index
InjectButtons ==
    /\ ePc = "page"
    /\ ePairs' = collectForkChatPairs(eUsers)
    /\ ePc' = "buttons"
    /\ UNCHANGED <<eUsers, eIndex, eTurnId, eTurns, eOut>>

\* the button at position index is clicked and the fork confirmed: executeFork,
\* lines 570-571
ClickFork(index) ==
    /\ ePc = "buttons"
    /\ index \in 0..(Len(ePairs) - 1)
    /\ LET turnId == ensureTurnId(index)
           run == extractConversationUpToTurnRun(index, turnId, collectForkChatPairs(eUsers),
                                                 ExtractTitle)
       IN  /\ eTurnId' = turnId
           /\ eTurns' = run.turns
           /\ eOut' = run.out
    /\ eIndex' = index
    /\ ePc' = "extracted"
    /\ UNCHANGED <<eUsers, ePairs>>

NextExtract ==
    \/ InjectButtons /\ ExtractOthers
    \/ \E index \in 0..(MaxUsers - 1) : ClickFork(index) /\ ExtractOthers

SpecExtract == InitExtract /\ [][NextExtract]_vars

\* ------------------------------------------------------------------------
\* fork/index.ts : startFork, injectForkButtons, injectForkIndicators,
\* scheduleForkIndicatorRefresh (SpecIndicators)
\* ------------------------------------------------------------------------

\* the user-message hosts of the page, in page order
MaxHosts == 2

Hosts == 1..MaxHosts

\* the most runs of injectForkIndicators followed
MaxRuns == 3

NoGroups == [h \in Hosts |-> 0]

\* how getForConversation ends: nodes of the conversation, an empty list, a
\* rejection
NodesOutcomes == {"nodes", "empty", "rejects"}

\* how the reads of a host's groups end: buildBranchDisplayNodes has two
\* branches or more to show, or fewer (groups empty, pruned or unreadable)
GroupOutcomes == {"branches", "nothing"}

\* lines 846-853: the loop goes on to the next host, from host `from` on, whose
\* turn has forks and that holds no indicator group now; 0 when there is none
NextHostToLoad(from, forked, groups) ==
    LET hosts == {h \in Hosts : h >= from /\ h \in forked /\ groups[h] = 0}
    IN  IF hosts = {} THEN 0 ELSE CHOOSE h \in hosts : \A other \in hosts : h <= other

\* the run after its loop moved on from host `from`
RunFrom(from, forked, groups) ==
    LET h == NextHostToLoad(from, forked, groups)
    IN  IF h = 0 THEN [pc |-> "done", host |-> 0] ELSE [pc |-> "group", host |-> h]

\* injectForkIndicators is called: it awaits getForConversation (line 822)
RunStarted == [pc |-> "nodes", host |-> 0]

InitIndicators ==
    /\ iPhase = "started"
    /\ iSetup = TRUE
    /\ iDebounce = FALSE
    /\ iRefresh = FALSE
    /\ iObserver = TRUE
    /\ iListener = TRUE
    /\ iForked \in {{1}, Hosts}
    /\ iButtons = {}
    /\ iGroups = NoGroups
    /\ iRuns = <<>>
    /\ iDeleting = 0
    /\ CoreIdle /\ CallsIdle /\ PruneIdle /\ WatchIdle /\ ExtractIdle /\ ExecuteIdle

IndicatorOthers == UNCHANGED <<coreVars, callVars, pruneVars, watchVars, extractVars, executeVars>>

\* lines 978-984: the setup timer of 1000 ms fires: injectForkButtons, then
\* injectForkIndicators
SetupFires ==
    /\ iSetup
    /\ Len(iRuns) < MaxRuns
    /\ iSetup' = FALSE
    /\ iButtons' = Hosts
    /\ iRuns' = Append(iRuns, RunStarted)
    /\ UNCHANGED <<iPhase, iDebounce, iRefresh, iObserver, iListener, iForked, iGroups,
                   iDeleting>>

\* lines 987-993: the observer reports a mutation: the debounce timer is set anew
Mutation ==
    /\ iObserver
    /\ iDebounce' = TRUE
    /\ UNCHANGED <<iPhase, iSetup, iRefresh, iObserver, iListener, iForked, iButtons, iGroups,
                   iRuns, iDeleting>>

\* lines 989-992: the debounce timer fires
DebounceFires ==
    /\ iDebounce
    /\ Len(iRuns) < MaxRuns
    /\ iDebounce' = FALSE
    /\ iButtons' = Hosts
    /\ iRuns' = Append(iRuns, RunStarted)
    /\ UNCHANGED <<iPhase, iSetup, iRefresh, iObserver, iListener, iForked, iGroups, iDeleting>>

\* lines 1011-1013, 484-486: the fork nodes in storage changed: the refresh timer
\* is set anew
StorageChanged ==
    /\ iListener
    /\ iRefresh' = TRUE
    /\ UNCHANGED <<iPhase, iSetup, iDebounce, iObserver, iListener, iForked, iButtons, iGroups,
                   iRuns, iDeleting>>

\* lines 486-490: the refresh timer fires: the indicator groups are removed and
\* injectForkIndicators called
RefreshFires ==
    /\ iRefresh
    /\ Len(iRuns) < MaxRuns
    /\ iRefresh' = FALSE
    /\ iGroups' = NoGroups
    /\ iRuns' = Append(iRuns, RunStarted)
    /\ UNCHANGED <<iPhase, iSetup, iDebounce, iObserver, iListener, iForked, iButtons, iDeleting>>

\* lines 910-918: the delete button of an indicator is clicked and confirmed:
\* the handler awaits removeForkNode
DeleteClicked(h) ==
    /\ iGroups[h] > 0
    /\ iDeleting = 0
    /\ iDeleting' = 1
    /\ UNCHANGED <<iPhase, iSetup, iDebounce, iRefresh, iObserver, iListener, iForked, iButtons,
                   iGroups, iRuns>>

\* lines 919-926: removeForkNode settled: the groups are removed and
\* injectForkIndicators called
DeleteSettles ==
    /\ iDeleting > 0
    /\ Len(iRuns) < MaxRuns
    /\ iDeleting' = iDeleting - 1
    /\ iGroups' = NoGroups
    /\ iRuns' = Append(iRuns, RunStarted)
    /\ UNCHANGED <<iPhase, iSetup, iDebounce, iRefresh, iObserver, iListener, iForked, iButtons>>

\* lines 822-853: getForConversation settled; with nodes the loop starts and
\* runs up to its first await
NodesArrive(r, outcome) ==
    /\ r \in DOMAIN iRuns
    /\ iRuns[r].pc = "nodes"
    /\ iRuns' = [iRuns EXCEPT ![r] = IF outcome = "nodes" THEN RunFrom(1, iForked, iGroups)
                                     ELSE [pc |-> "done", host |-> 0]]
    /\ UNCHANGED <<iPhase, iSetup, iDebounce, iRefresh, iObserver, iListener, iForked, iButtons,
                   iGroups, iDeleting>>

\* lines 855-934: the groups of the host are read and pruned; with two branches
\* or more the indicator group is appended to the host, and the loop goes on
GroupsArrive(r, outcome) ==
    /\ r \in DOMAIN iRuns
    /\ iRuns[r].pc = "group"
    /\ LET h == iRuns[r].host
           groups == IF outcome = "branches" THEN [iGroups EXCEPT ![h] = @ + 1] ELSE iGroups
       IN  /\ iGroups' = groups
           /\ iRuns' = [iRuns EXCEPT ![r] = RunFrom(h + 1, iForked, groups)]
    /\ UNCHANGED <<iPhase, iSetup, iDebounce, iRefresh, iObserver, iListener, iForked, iButtons,
                   iDeleting>>

\* lines 1018-1041: the cleanup function startFork returned is called
Cleanup ==
    /\ iPhase = "started"
    /\ iPhase' = "cleaned"
    /\ iObserver' = FALSE
    /\ iDebounce' = FALSE
    /\ iRefresh' = FALSE
    /\ iListener' = FALSE
    /\ iButtons' = {}
    /\ iGroups' = NoGroups
    /\ UNCHANGED <<iSetup, iForked, iRuns, iDeleting>>

NextIndicators ==
    \/ SetupFires /\ IndicatorOthers
    \/ Mutation /\ IndicatorOthers
    \/ DebounceFires /\ IndicatorOthers
    \/ StorageChanged /\ IndicatorOthers
    \/ RefreshFires /\ IndicatorOthers
    \/ \E h \in Hosts : DeleteClicked(h) /\ IndicatorOthers
    \/ DeleteSettles /\ IndicatorOthers
    \/ \E r \in 1..MaxRuns, outcome \in NodesOutcomes : NodesArrive(r, outcome) /\ IndicatorOthers
    \/ \E r \in 1..MaxRuns, outcome \in GroupOutcomes : GroupsArrive(r, outcome) /\ IndicatorOthers
    \/ Cleanup /\ IndicatorOthers

SpecIndicators == InitIndicators /\ [][NextIndicators]_vars

\* ------------------------------------------------------------------------
\* fork/index.ts : executeFork (SpecExecute)
\* ------------------------------------------------------------------------

\* the ids generateUniqueId('fork') hands out: the first call is the default of
\* line 579, the second the one resolveForkPlan asks for
DefaultGroupId == "fork-a"

PlanGroupId == "fork-b"

\* mutation of HasContent: the transcript is not trimmed
HasContentUntrimmed(markdown) == markdown # <<>>

\* line 572: markdown.trim() is not empty
HasContent(markdown) == Trim(markdown) # <<>>

\* lines 579-581: the plan used when the reads fail
DefaultPlan == [forkGroupId |-> DefaultGroupId, sourceForkIndex |-> 0, nextForkIndex |-> 1]

\* lines 612-621: the pending fork (sourceUrl and sourceTitle left out)
PendingForkOf(conversationId, turnId, plan, markdown) ==
    [sourceConversationId |-> conversationId,
     sourceTurnId |-> turnId,
     forkGroupId |-> plan.forkGroupId,
     sourceForkIndex |-> plan.sourceForkIndex,
     nextForkIndex |-> plan.nextForkIndex,
     markdown |-> composeForkInputWithContext(markdown, NoLanguage)]

NoPendingFork == [stored |-> FALSE]

\* the transcripts: none, blank, one with content
ExecuteMarkdowns == {<<>>, <<" ">>, <<"#", " ", "T">>}

InitExecute ==
    /\ fConversationId \in {"", "conv1", "conv2"}
    /\ fTurnIndex \in {0, 1}
    /\ fMarkdown \in ExecuteMarkdowns
    /\ fStore \in {EmptyData, SeedStore}
    /\ fStorageFull \in BOOLEAN
    /\ fPending = NoPendingFork
    /\ fOpened = 0
    /\ fReads = "none"
    /\ fPc = "click"
    /\ CoreIdle /\ CallsIdle /\ PruneIdle /\ WatchIdle /\ ExtractIdle /\ IndicatorIdle

ExecuteOthers == UNCHANGED <<coreVars, callVars, pruneVars, watchVars, extractVars, indicatorVars>>

\* lines 611-631: the pending fork is put into sessionStorage and the new
\* conversation opened, unless sessionStorage refuses the item
StorePending(plan) ==
    IF fStorageFull
    THEN /\ fPending' = fPending
         /\ fOpened' = fOpened
         /\ fPc' = "returned"
    ELSE /\ fPending' = [stored |-> TRUE,
                         fork |-> PendingForkOf(fConversationId, ensureTurnId(fTurnIndex), plan,
                                                fMarkdown)]
         /\ fOpened' = fOpened + 1
         /\ fPc' = "opened"

\* lines 564-584: executeFork up to its read of the conversation's nodes
ExecuteStarts ==
    /\ fPc = "click"
    /\ fPc' = IF fConversationId = "" \/ ~HasContent(fMarkdown) THEN "returned" ELSE "nodes"
    /\ UNCHANGED <<fConversationId, fTurnIndex, fMarkdown, fStore, fStorageFull, fPending,
                   fOpened, fReads>>

\* lines 584-609: getForConversation settles; without candidate groups the
\* plan is resolved at once
ConversationRead(resolves) ==
    /\ fPc = "nodes"
    /\ LET turnId == ensureTurnId(fTurnIndex)
           conversationNodes == getForConversation(fStore, fConversationId)
           candidates == CandidateGroups(fStore, conversationNodes, turnId)
       IN  IF ~resolves
           THEN fReads' = "failed" /\ StorePending(DefaultPlan)
           ELSE IF DOMAIN candidates = {}
           THEN /\ fReads' = "succeeded"
                /\ StorePending(resolveForkPlan(fConversationId, turnId, conversationNodes,
                                                candidates, PlanGroupId))
           ELSE /\ fReads' = "nodes"
                /\ fPc' = "groups"
                /\ UNCHANGED <<fPending, fOpened>>
    /\ UNCHANGED <<fConversationId, fTurnIndex, fMarkdown, fStore, fStorageFull>>

\* lines 594-609: the getGroup reads settle: all resolve, or one rejects
GroupsRead(resolve) ==
    /\ fPc = "groups"
    /\ IF resolve
       THEN /\ fReads' = "succeeded"
            /\ StorePending(ForkPlanOf(fStore, fConversationId, ensureTurnId(fTurnIndex),
                                       PlanGroupId))
       ELSE /\ fReads' = "failed"
            /\ StorePending(DefaultPlan)
    /\ UNCHANGED <<fConversationId, fTurnIndex, fMarkdown, fStore, fStorageFull>>

NextExecute ==
    \/ ExecuteStarts /\ ExecuteOthers
    \/ \E resolves \in BOOLEAN : ConversationRead(resolves) /\ ExecuteOthers
    \/ \E resolve \in BOOLEAN : GroupsRead(resolve) /\ ExecuteOthers

SpecExecute == InitExecute /\ [][NextExecute]_vars

\* ------------------------------------------------------------------------
\* Properties of mergeForkNodes (SpecMerge)
\* ------------------------------------------------------------------------

IsData(arg) == "nodes" \in DOMAIN arg /\ "groups" \in DOMAIN arg

Identity3(n) == <<n.conversationId, n.turnId, n.forkGroupId>>

LocalNodeSet == NodeSetOf(NodesIndexOf(mLocal))

CloudNodeSet == NodeSetOf(NodesIndexOf(mCloud))

OutNodes == FlatNodes(mOut.nodes)

\* the entries of the result with the identity of n
OutEntriesOf(n) == SelectSeq(OutNodes, LAMBDA e : Identity3(e) = Identity3(n))

\* the keys "conversationId:turnId" of the nodes of group g among the nodes S
KeysOfGroup(S, g) == {<<n.conversationId, n.turnId>> : n \in {e \in S : e.forkGroupId = g}}

GroupsConsistent(data) ==
    /\ DOMAIN data.groups = {n.forkGroupId : n \in NodeSetOf(data.nodes)}
    /\ \A g \in DOMAIN data.groups :
          /\ Range(data.groups[g]) = KeysOfGroup(NodeSetOf(data.nodes), g)
          /\ Len(data.groups[g]) = Cardinality(Range(data.groups[g]))

\* equality of two datasets, both indices compared as sets
ContentEqual(a, b) ==
    /\ NodeSetOf(a.nodes) = NodeSetOf(b.nodes)
    /\ DOMAIN a.groups = DOMAIN b.groups
    /\ \A g \in DOMAIN a.groups : Range(a.groups[g]) = Range(b.groups[g])

\* C1: for every identity held by both replicas the result has exactly one entry,
\* the input entry with the strictly greater createdAt, the local one on a tie
C1_NewerEntryWins ==
    mPc = "merged" =>
        \A l \in LocalNodeSet, c \in CloudNodeSet :
            Identity3(l) = Identity3(c) =>
                /\ Len(OutEntriesOf(l)) = 1
                /\ OutEntriesOf(l)[1] = (IF c.createdAt > l.createdAt THEN c ELSE l)

\* C1 witness: a merge with one shared identity the cloud wins and one tied
C1_Witness ==
    /\ mPc = "merged"
    /\ \E l \in LocalNodeSet, c \in CloudNodeSet :
          Identity3(l) = Identity3(c) /\ c.createdAt > l.createdAt /\ c \in Range(OutNodes)
    /\ \E l \in LocalNodeSet, c \in CloudNodeSet :
          Identity3(l) = Identity3(c) /\ c.createdAt = l.createdAt /\ l \in Range(OutNodes)

\* C2: whatever groups index the inputs carry, groups[g] of the result is exactly
\* the duplicate-free key set of the result's nodes of group g, and no group is
\* listed without a node
C2_GroupsRebuiltFromNodes ==
    mPc = "merged" => GroupsConsistent(mOut)

\* C2 witness: a merge of replicas with drifted groups indices whose result
\* holds nodes of two groups
C2_Witness ==
    /\ mPc = "merged"
    /\ IsData(mLocal) /\ mLocal.groups = CorruptGroups
    /\ IsData(mCloud) /\ mCloud.groups = CorruptGroups
    /\ Cardinality({n.forkGroupId : n \in Range(OutNodes)}) = 2

\* C3 as stated: merging any dataset A with the empty dataset, on either side,
\* yields a dataset content-equal to A
C3_MergeIdentityAnyDataset ==
    mPc = "merged" =>
        /\ (IsData(mLocal) /\ mCloud = EmptyData) => ContentEqual(mOut, mLocal)
        /\ (IsData(mCloud) /\ mLocal = EmptyData) => ContentEqual(mOut, mCloud)

\* C3 amended: merging a dataset A whose groups index is the one derived from its
\* nodes with the empty dataset, on either side, yields a dataset content-equal
\* to A; for any A the nodes of the result are the nodes of A
C3_MergeIdentityConsistent ==
    mPc = "merged" =>
        /\ (IsData(mLocal) /\ mCloud = EmptyData) =>
              /\ NodeSetOf(mOut.nodes) = NodeSetOf(mLocal.nodes)
              /\ GroupsConsistent(mLocal) => ContentEqual(mOut, mLocal)
        /\ (IsData(mCloud) /\ mLocal = EmptyData) =>
              /\ NodeSetOf(mOut.nodes) = NodeSetOf(mCloud.nodes)
              /\ GroupsConsistent(mCloud) => ContentEqual(mOut, mCloud)

\* C3 witness: a consistent cloud dataset of two nodes merged into the empty
\* local dataset
C3_Witness ==
    /\ mPc = "merged"
    /\ mLocal = EmptyData
    /\ IsData(mCloud) /\ GroupsConsistent(mCloud)
    /\ Cardinality(CloudNodeSet) = 2
    /\ ContentEqual(mOut, mCloud)

\* C4: the identities of the result are the union of the identities of the two
\* replicas, each once in its conversation's collection, and an entry whose
\* identity only one replica holds is in the result unchanged
C4_UnionOfIdentities ==
    mPc = "merged" =>
        /\ {Identity3(n) : n \in Range(OutNodes)}
              = {Identity3(n) : n \in LocalNodeSet \cup CloudNodeSet}
        /\ \A c \in DOMAIN mOut.nodes : \A i, j \in 1..Len(mOut.nodes[c]) :
              /\ mOut.nodes[c][i].conversationId = c
              /\ Identity3(mOut.nodes[c][i]) = Identity3(mOut.nodes[c][j]) => i = j
        /\ \A l \in LocalNodeSet :
              (\A c \in CloudNodeSet : Identity3(c) # Identity3(l)) => l \in Range(OutNodes)
        /\ \A c \in CloudNodeSet :
              (\A l \in LocalNodeSet : Identity3(c) # Identity3(l)) => c \in Range(OutNodes)

\* C4 witness: a merge where the replicas hold different fork groups on the same
\* turn of one conversation, and a node of another conversation
C4_Witness ==
    /\ mPc = "merged"
    /\ \E l \in LocalNodeSet, c \in CloudNodeSet :
          /\ l.conversationId = c.conversationId /\ l.turnId = c.turnId
          /\ l.forkGroupId # c.forkGroupId
          /\ {l, c} \subseteq Range(OutNodes)
    /\ Cardinality({n.conversationId : n \in Range(OutNodes)}) = 2

\* C5: an absent or malformed argument counts as the empty dataset: the call
\* returns a dataset, it holds exactly the entries of the other argument, and it
\* is {nodes: {}, groups: {}} when there are none
C5_AbsentArgumentIsEmpty ==
    (mPc = "merged" /\ (~IsData(mLocal) \/ ~IsData(mCloud))) =>
        /\ IsData(mOut)
        /\ ~IsData(mLocal) => mOut.nodes = NodesIndexOf(mCloud)
        /\ ~IsData(mCloud) => mOut.nodes = NodesIndexOf(mLocal)
        /\ GroupsConsistent(mOut)
        /\ (LocalNodeSet = {} /\ CloudNodeSet = {}) => mOut = EmptyData

\* C5 witness: null merged with a cloud dataset that holds nodes
C5_Witness ==
    /\ mPc = "merged"
    /\ mLocal = Null
    /\ IsData(mCloud) /\ CloudNodeSet # {}
    /\ IsData(mOut) /\ mOut.nodes = mCloud.nodes

\* C26: with M the merge of A and B, merging M with B and merging M with A both
\* give a dataset content-equal to M, and merging A with itself gives what
\* merging A with the empty dataset gives
C26_MergeConverges ==
    mPc = "merged" =>
        /\ ContentEqual(mergeForkNodes(mOut, mCloud), mOut)
        /\ ContentEqual(mergeForkNodes(mOut, mLocal), mOut)
        /\ ContentEqual(mergeForkNodes(mLocal, mLocal), mergeForkNodes(mLocal, EmptyData))
        /\ ContentEqual(mergeForkNodes(mCloud, mCloud), mergeForkNodes(mCloud, EmptyData))

\* C26 witness: a merge in which the cloud won one shared identity and the
\* replicas tied on another, so that M differs from both A and B
C26_Witness ==
    /\ mPc = "merged"
    /\ IsData(mLocal) /\ IsData(mCloud)
    /\ \E l \in LocalNodeSet, c \in CloudNodeSet :
          Identity3(l) = Identity3(c) /\ c.createdAt > l.createdAt
    /\ \E l \in LocalNodeSet, c \in CloudNodeSet :
          Identity3(l) = Identity3(c) /\ c.createdAt = l.createdAt
    /\ NodeSetOf(mOut.nodes) # LocalNodeSet
    /\ NodeSetOf(mOut.nodes) # CloudNodeSet
    /\ mergeForkNodes(mOut, mLocal) = mOut

\* ------------------------------------------------------------------------
\* Properties of the stored fork groups (Spec, SpecSync)
\* ------------------------------------------------------------------------

\* C6: in every store reached by forks, removals and merges, a fork group holds
\* at most one node of a conversation
C6_OneNodePerConversation ==
    \A r \in Replicas : \A a, b \in NodeSetOf(store[r].nodes) :
        (a.forkGroupId = b.forkGroupId /\ a.conversationId = b.conversationId) => a = b

\* ------------------------------------------------------------------------
\* Properties of resolveForkPlan (SpecPlan)
\* ------------------------------------------------------------------------

\* the nodes of conversationNodes on the requested turn, after normalisation
PlanMatches ==
    {i \in 1..Len(pConversationNodes) :
        normalizeTurnId(pConversationNodes[i].turnId) = normalizeTurnId(pTurnId)}

\* the node list of the group the plan chose
ChosenGroupNodes == GroupNodesOf(pGroups, pPlan.forkGroupId)

\* C7: the plan is {createGroupId(), 0, 1} exactly when no node is on the
\* requested turn; createGroupId is invoked once then and never otherwise, when
\* the plan's group is the group of one of the matching nodes
C7_FreshGroupIffNoMatch ==
    pPc = "planned" =>
        /\ (PlanMatches = {}) <=>
              (pPlan = [forkGroupId |-> FreshGroupId, sourceForkIndex |-> 0, nextForkIndex |-> 1])
        /\ pCalls = (IF PlanMatches = {} THEN 1 ELSE 0)
        /\ PlanMatches # {} =>
              \E i \in PlanMatches : pPlan.forkGroupId = pConversationNodes[i].forkGroupId

\* C7 witness: a first fork on a turn of a conversation that has nodes on
\* other turns
C7_Witness ==
    /\ pPc = "planned"
    /\ pConversationNodes # <<>>
    /\ PlanMatches = {}
    /\ pPlan.forkGroupId = FreshGroupId /\ pCalls = 1

\* C8: with a node on the requested turn, nextForkIndex is the largest forkIndex
\* of the chosen group's list plus one (one for an empty list), above every
\* forkIndex of the list
C8_NextIndexAboveGroup ==
    (pPc = "planned" /\ PlanMatches # {}) =>
        /\ \A i \in 1..Len(ChosenGroupNodes) : pPlan.nextForkIndex > ChosenGroupNodes[i].forkIndex
        /\ ChosenGroupNodes # <<>> =>
              \E i \in 1..Len(ChosenGroupNodes) :
                  pPlan.nextForkIndex = ChosenGroupNodes[i].forkIndex + 1
        /\ ChosenGroupNodes = <<>> => pPlan.nextForkIndex = 1

\* C8 witness: a plan for a group whose list holds its largest index before a
\* smaller one
C8_Witness ==
    /\ pPc = "planned"
    /\ PlanMatches # {}
    /\ Len(ChosenGroupNodes) >= 2
    /\ ChosenGroupNodes[1].forkIndex > ChosenGroupNodes[Len(ChosenGroupNodes)].forkIndex
    /\ pPlan.nextForkIndex = ChosenGroupNodes[1].forkIndex + 1

\* the number of nodes groups holds for group g, 0 for a group it does not list
PlanGroupSize(g) == Len(GroupNodesOf(pGroups, g))

\* the position in conversationNodes of the first matching node of group g
FirstMatchOf(g) ==
    CHOOSE i \in PlanMatches :
        /\ pConversationNodes[i].forkGroupId = g
        /\ \A j \in PlanMatches : pConversationNodes[j].forkGroupId = g => i <= j

\* the groups the matching nodes reference
PlanCandidates == {pConversationNodes[i].forkGroupId : i \in PlanMatches}

\* C11: among the groups of the matching nodes the plan chooses one with the
\* most nodes in groups (none for a group groups does not list), and among
\* those of that size the one first met in conversationNodes
C11_LargestGroupFirstOnTie ==
    (pPc = "planned" /\ PlanMatches # {}) =>
        /\ pPlan.forkGroupId \in PlanCandidates
        /\ \A h \in PlanCandidates :
              /\ PlanGroupSize(h) <= PlanGroupSize(pPlan.forkGroupId)
              /\ (h # pPlan.forkGroupId /\ PlanGroupSize(h) = PlanGroupSize(pPlan.forkGroupId))
                    => FirstMatchOf(pPlan.forkGroupId) < FirstMatchOf(h)

\* C11 witness: two candidate groups of the same non-zero size, "fork-2" met
\* first and chosen
C11_Witness ==
    /\ pPc = "planned"
    /\ PlanCandidates = {"fork-1", "fork-2"}
    /\ PlanGroupSize("fork-1") = PlanGroupSize("fork-2")
    /\ PlanGroupSize("fork-2") > 0
    /\ FirstMatchOf("fork-2") < FirstMatchOf("fork-1")
    /\ pPlan.forkGroupId = "fork-2"

\* the positions in the chosen group's list of the nodes of the current
\* conversation on the requested turn
SourcePositions ==
    {i \in 1..Len(ChosenGroupNodes) :
        /\ ChosenGroupNodes[i].conversationId = pConversationId
        /\ normalizeTurnId(ChosenGroupNodes[i].turnId) = normalizeTurnId(pTurnId)}

\* C12: sourceForkIndex is the forkIndex of the (first) node of the chosen
\* group's list that is of the current conversation and on the requested turn
\* after normalisation, and 0 when the list has no such node, whatever
\* conversationNodes holds
C12_SourceIndexFromGroupList ==
    (pPc = "planned" /\ PlanMatches # {}) =>
        /\ SourcePositions = {} => pPlan.sourceForkIndex = 0
        /\ SourcePositions # {} =>
              \E i \in SourcePositions :
                  /\ \A j \in SourcePositions : i <= j
                  /\ pPlan.sourceForkIndex = ChosenGroupNodes[i].forkIndex

\* C12 witness: the source node is stored under a legacy turn id with a
\* non-zero forkIndex and found for the stable turn id
C12_Witness ==
    /\ pPc = "planned"
    /\ pTurnId = TurnU0
    /\ \E i \in SourcePositions :
          /\ ChosenGroupNodes[i].turnId = TurnU0Legacy
          /\ ChosenGroupNodes[i].forkIndex > 0
          /\ pPlan.sourceForkIndex = ChosenGroupNodes[i].forkIndex

\* ------------------------------------------------------------------------
\* Properties of a growing fork group (SpecGrow)
\* ------------------------------------------------------------------------

\* the positions of the nodes the plans of this run recorded
GrownPositions == (Len(gNodes) - gCalls + 1)..Len(gNodes)

\* C10: every nextForkIndex a plan returned, recorded as a node of the group
\* before the next plan, is greater than every forkIndex the group's list held
\* before it: the initial indices and those of all earlier plans
C10_PlanMonotonicity ==
    \A j \in GrownPositions : \A i \in 1..(j - 1) :
        gNodes[j].forkIndex > gNodes[i].forkIndex

\* C10 witness: two plans in a row for a group whose list held a larger index
\* after a smaller one, the second plan one above the first
C10_Witness ==
    /\ gCalls = 2
    /\ Len(gNodes) >= 4
    /\ gNodes[2].forkIndex > gNodes[1].forkIndex
    /\ gNodes[Len(gNodes) - 1].forkIndex = gNodes[2].forkIndex + 1
    /\ gNodes[Len(gNodes)].forkIndex = gNodes[2].forkIndex + 2

\* ------------------------------------------------------------------------
\* Properties of the fork indices of interleaved forks (Spec)
\* ------------------------------------------------------------------------

\* the nodes of replica r that were recorded as the new conversation of a fork
BranchNodes(r) == {n \in NodeSetOf(store[r].nodes) : IdentityOf(n) \in branches}

\* C9: whatever the interleaving of the forks of one device, no two distinct
\* new-branch conversations are recorded in the same fork group with the same
\* forkIndex
C9_CollisionFreeIndices ==
    \A r \in Replicas : \A a, b \in BranchNodes(r) :
        (a.forkGroupId = b.forkGroupId /\ a.forkIndex = b.forkIndex)
            => a.conversationId = b.conversationId

\* ------------------------------------------------------------------------
\* Properties of buildBranchDisplayNodes (SpecDisplay)
\* ------------------------------------------------------------------------

\* all the nodes of the argument, in the order the lists hold them
DisplayInput == Flat(dGroups)

\* the sort key of a node is at most that of another
KeyAtMost(a, b) ==
    \/ a.forkIndex < b.forkIndex
    \/ a.forkIndex = b.forkIndex /\ a.createdAt <= b.createdAt

SameKey(a, b) == a.forkIndex = b.forkIndex /\ a.createdAt = b.createdAt

\* C13: the output holds exactly one node for each conversationId of the input
\* lists, and every output node is an input node
C13_OneNodePerInputConversation ==
    dPc = "built" =>
        /\ {dOut[i].conversationId : i \in 1..Len(dOut)}
              = {DisplayInput[i].conversationId : i \in 1..Len(DisplayInput)}
        /\ \A i, j \in 1..Len(dOut) :
              dOut[i].conversationId = dOut[j].conversationId => i = j
        /\ Range(dOut) \subseteq Range(DisplayInput)

\* C13 witness: a conversation in both lists, with different nodes, shown once
C13_Witness ==
    /\ dPc = "built"
    /\ Len(dGroups) = 2
    /\ \E a \in Range(dGroups[1]), b \in Range(dGroups[2]) :
          a.conversationId = b.conversationId /\ a # b
    /\ Len(dOut) = 2
    /\ Len(DisplayInput) = 4

\* C14: the output is sorted ascending by (forkIndex, createdAt), and the two
\* groups of the test come out as conv-1, conv-2, conv-3
C14_SortedByIndexThenTime ==
    dPc = "built" =>
        /\ \A i \in 1..(Len(dOut) - 1) : KeyAtMost(dOut[i], dOut[i + 1])
        /\ dGroups = <<TestGroupA, TestGroupB>> =>
              [i \in 1..Len(dOut) |-> dOut[i].conversationId] = <<"conv-1", "conv-2", "conv-3">>

\* C14 witness: two nodes of equal forkIndex supplied later time first and
\* shown earlier time first
C14_Witness ==
    /\ dPc = "built"
    /\ Len(DisplayInput) >= 2
    /\ DisplayInput[1].forkIndex = DisplayInput[2].forkIndex
    /\ DisplayInput[1].createdAt > DisplayInput[2].createdAt
    /\ DisplayInput[1].conversationId # DisplayInput[2].conversationId
    /\ \E i \in 1..(Len(dOut) - 1) :
          dOut[i] = DisplayInput[2] /\ dOut[i + 1] = DisplayInput[1]

\* the positions of the input nodes of the conversation of node o
InputPositionsOf(o) ==
    {i \in 1..Len(DisplayInput) : DisplayInput[i].conversationId = o.conversationId}

\* C15: the node kept for a conversation has the least (forkIndex, createdAt)
\* of the input nodes of that conversation, in whatever order they come, and
\* is the first of the input nodes that have that least pair
C15_KeepsFirstMinimum ==
    dPc = "built" =>
        \A k \in 1..Len(dOut) :
            /\ \A i \in InputPositionsOf(dOut[k]) : KeyAtMost(dOut[k], DisplayInput[i])
            /\ \E i \in InputPositionsOf(dOut[k]) :
                  /\ DisplayInput[i] = dOut[k]
                  /\ \A j \in InputPositionsOf(dOut[k]) :
                        SameKey(DisplayInput[j], dOut[k]) => i <= j

\* C15 witness: a conversation supplied with three different nodes, the kept
\* one neither the first nor a node of the least time, and two nodes that tie
C15_Witness ==
    /\ dPc = "built"
    /\ \E k \in 1..Len(dOut) :
          /\ Cardinality({DisplayInput[i] : i \in InputPositionsOf(dOut[k])}) = 3
          /\ DisplayInput[1].conversationId = dOut[k].conversationId
          /\ DisplayInput[1] # dOut[k]
          /\ \E i \in InputPositionsOf(dOut[k]) : DisplayInput[i].createdAt < dOut[k].createdAt
          /\ \E i \in InputPositionsOf(dOut[k]) :
                SameKey(DisplayInput[i], dOut[k]) /\ DisplayInput[i] # dOut[k]

\* ------------------------------------------------------------------------
\* Properties of buildForkMarkdown (SpecMarkdown)
\* ------------------------------------------------------------------------

\* the lines of a string: its pieces between line breaks
RECURSIVE SplitLines(_, _)
SplitLines(text, line) ==
    IF text = <<>> THEN <<line>>
    ELSE IF Head(text) = "\n" THEN <<line>> \o SplitLines(Tail(text), <<>>)
    ELSE SplitLines(Tail(text), Append(line, Head(text)))

\* whether the string hay contains the string needle
Contains(hay, needle) ==
    \E i \in 1..(Len(hay) - Len(needle) + 1) : SubSeq(hay, i, i + Len(needle) - 1) = needle

MarkdownLines == SplitLines(mdOut, <<>>)

\* the positions of the User headings among the lines of the output
UserHeadingLines == {i \in 1..Len(MarkdownLines) : MarkdownLines[i] = UserHeading}

LastTurn == mdArgs.turns[Len(mdArgs.turns)]

\* the texts the output is built from besides the last assistant text
EarlierContent ==
    {TitleLine(mdArgs.title), UserHeading, AssistantHeading}
    \cup {mdArgs.turns[i].user : i \in 1..Len(mdArgs.turns)}
    \cup {mdArgs.turns[i].assistant :
             i \in {j \in 1..(Len(mdArgs.turns) - 1) : HasAssistant(mdArgs.turns[j])}}

\* C16: for non-empty turns the output has one User section per turn, in input
\* order; with dropLastAssistant no Assistant section follows the last User
\* section, and the output does not contain the last turn's assistant text
\* when that text is not blank and no earlier content contains it; without
\* dropLastAssistant a non-blank assistant text of the last turn closes the
\* output; the caller's turns are as they were passed
C16_DropLastAssistant ==
    (mdPc = "built" /\ mdArgs.turns # <<>>) =>
        /\ Cardinality(UserHeadingLines) = Len(mdArgs.turns)
        /\ \A k \in 1..Len(mdArgs.turns) :
              \E i \in UserHeadingLines :
                  /\ Cardinality({j \in UserHeadingLines : j <= i}) = k
                  /\ MarkdownLines[i + 2] = mdArgs.turns[k].user
        /\ mdArgs.dropLastAssistant =>
              /\ \A i \in 1..Len(MarkdownLines) :
                    MarkdownLines[i] = AssistantHeading => \E j \in UserHeadingLines : j > i
              /\ (/\ HasAssistant(LastTurn)
                  /\ Trim(LastTurn.assistant) # <<>>
                  /\ \A text \in EarlierContent : ~Contains(text, LastTurn.assistant))
                    => ~Contains(mdOut, LastTurn.assistant)
        /\ (~mdArgs.dropLastAssistant /\ HasAssistant(LastTurn)
              /\ Trim(LastTurn.assistant) # <<>>) =>
              SubSeq(MarkdownLines, Len(MarkdownLines) - 3, Len(MarkdownLines))
                  = <<AssistantHeading, <<>>, LastTurn.assistant, <<>>>>
        /\ mdTurns = mdArgs.turns

\* C16 witness: two turns with assistant texts, the last one's text of its own
\* and dropped, the first one's kept
C16_Witness ==
    /\ mdPc = "built"
    /\ mdArgs.dropLastAssistant
    /\ Len(mdArgs.turns) = 2
    /\ HasAssistant(mdArgs.turns[1]) /\ mdArgs.turns[1].assistant = <<"q">>
    /\ HasAssistant(LastTurn) /\ LastTurn.assistant = <<"b">>
    /\ Contains(mdOut, AssistantHeading)
    /\ ~Contains(mdOut, <<"b">>)

\* ------------------------------------------------------------------------
\* Properties of normalizeTurnId (SpecTurn)
\* ------------------------------------------------------------------------

\* s begins with "u-" and the digits s[3..k]
UserPrefixUpTo(s, k) ==
    /\ 3 <= k /\ k <= Len(s)
    /\ s[1] = "u" /\ s[2] = "-"
    /\ \A i \in 3..k : IsDigit(s[i])

\* s has a leading "u-<digits>" prefix
HasUserPrefix(s) == \E k \in 3..Len(s) : UserPrefixUpTo(s, k)

\* s is "u-<digits>-<anything>", the digits ending at k, <anything> not empty
LegacyShapeAt(s, k) ==
    /\ UserPrefixUpTo(s, k)
    /\ Len(s) > k + 1
    /\ s[k + 1] = "-"

\* C17 as stated: every string "u-<digits>-<anything>" is mapped to
\* "u-<digits>", and every string without a leading "u-<digits>" prefix is
\* returned identical to the input
C17_StripsSuffixOthersIdentical ==
    tPc = "done" =>
        /\ \A k \in 3..Len(tRaw) : LegacyShapeAt(tRaw, k) => tOut = SubSeq(tRaw, 1, k)
        /\ ~HasUserPrefix(tRaw) => tOut = tRaw

\* C17 amended: with t the input without its leading and trailing white space,
\* t of the shape "u-<digits>-<anything>", <anything> not empty and without a
\* line break, is mapped to "u-<digits>", and t without a leading "u-<digits>"
\* prefix is returned as t: identical to the input when the input has no
\* surrounding white space
C17_TrimsThenStripsSuffix ==
    tPc = "done" =>
        LET t == Trim(tRaw)
        IN  /\ \A k \in 3..Len(t) :
                  (LegacyShapeAt(t, k) /\ \A j \in (k + 2)..Len(t) : t[j] \notin LineTerminators)
                      => tOut = SubSeq(t, 1, k)
            /\ ~HasUserPrefix(t) => tOut = t
            /\ (~HasUserPrefix(t) /\ t = tRaw) => tOut = tRaw

\* C17 witness: a string with white space around an id that is not a user turn
\* id, returned without the white space
C17_Witness ==
    /\ tPc = "done"
    /\ tRaw = <<" ", "a", "-", "1", "\n">>
    /\ tOut = <<"a", "-", "1">>

\* ------------------------------------------------------------------------
\* Properties of composeForkInputWithContext (SpecContext)
\* ------------------------------------------------------------------------

\* the hint without the white space around it; empty for a hint left out
HintValue == IF cRawLanguage.given THEN Trim(cRawLanguage.value) ELSE <<>>

\* the Taiwan variant: "zh_TW", or "zh-tw" in any letter case
IsTaiwanVariant(value) ==
    \/ value = <<"z", "h", "_", "T", "W">>
    \/ /\ Len(value) = 5
       /\ value[1] \in {"z", "Z"} /\ value[2] \in {"h", "H"} /\ value[3] = "-"
       /\ value[4] \in {"t", "T"} /\ value[5] \in {"w", "W"}

\* the locale codes matched by prefix, each as a string
PrefixCodes ==
    [zh |-> <<"z", "h">>, ar |-> <<"a", "r">>, es |-> <<"e", "s">>, fr |-> <<"f", "r">>,
     ja |-> <<"j", "a">>, ko |-> <<"k", "o">>, pt |-> <<"p", "t">>, ru |-> <<"r", "u">>,
     en |-> <<"e", "n">>]

\* C18: the hint resolves to one of the ten locales: the Taiwan variant to
\* zh_TW, any other string starting with "zh" to zh, a string starting with a
\* supported code to that locale, an absent, empty or unrecognized hint to en
\* (the hint taken without the white space around it); the output is that
\* locale's block, the "# Conversation History" header, the trimmed transcript
C18_LanguageResolvedByPrefix ==
    cPc = "done" =>
        /\ cLanguage \in ForkLanguages
        /\ IsTaiwanVariant(HintValue) => cLanguage = "zh_TW"
        /\ ~IsTaiwanVariant(HintValue) =>
              /\ \A code \in DOMAIN PrefixCodes :
                    StartsWith(HintValue, PrefixCodes[code]) => cLanguage = code
              /\ (\A code \in DOMAIN PrefixCodes : ~StartsWith(HintValue, PrefixCodes[code]))
                    => cLanguage = "en"
        /\ cRawLanguage.given =>
              \A code \in DOMAIN PrefixCodes :
                  (StartsWith(cRawLanguage.value, PrefixCodes[code])
                      /\ ~IsTaiwanVariant(HintValue)) => cLanguage = code
        /\ cOut = CONTEXT_PREFIX[cLanguage] \o HistoryHeader \o Trim(cHistory) \o <<"\n">>

\* C18 witness: the hint "ZH-TW", which does not start with "zh", resolved to
\* zh_TW, with a transcript that had white space around it
C18_Witness ==
    /\ cPc = "done"
    /\ cRawLanguage = LanguageOf(<<"Z", "H", "-", "T", "W">>)
    /\ cLanguage = "zh_TW"
    /\ cHistory # Trim(cHistory)
    /\ cOut = CONTEXT_PREFIX["zh_TW"] \o HistoryHeader \o Trim(cHistory) \o <<"\n">>

\* ------------------------------------------------------------------------
\* Properties of ForkNodesService (SpecService)
\* ------------------------------------------------------------------------

\* what the runtime did last: the callback it made, or the error it threw
LastRuntimeStep == sRuntime[Len(sRuntime)]

RuntimeThrew == Len(sRuntime) = 2 /\ "threw" \in DOMAIN LastRuntimeStep

RuntimeCalledBack == Len(sRuntime) = 2 /\ "response" \in DOMAIN LastRuntimeStep

\* the store answered ok and reported the field of the method as true
StoreReportedTrue ==
    /\ RuntimeCalledBack
    /\ ~LastRuntimeStep.lastError.set
    /\ "ok" \in DOMAIN LastRuntimeStep.response /\ LastRuntimeStep.response.ok = TRUE
    /\ ResultField[sCall.method] \in DOMAIN LastRuntimeStep.response
    /\ LastRuntimeStep.response[ResultField[sCall.method]] = TRUE

ResolvedTrue == sResult = Fulfilled(ValueOf(TRUE))

\* C19: addForkNode and removeForkNode resolve true exactly when the store
\* reports the node added or removed; they emit one 'fork:added' or
\* 'fork:removed' event with the identity exactly when they resolve true, and
\* none before the call resolves, when it resolves something else or rejects
C19_EventIffResolvedTrue ==
    sCall.method \in {"addForkNode", "removeForkNode"} =>
        /\ sPc = "done" => (ResolvedTrue <=> StoreReportedTrue)
        /\ ResolvedTrue =>
              sEvents = <<[name |-> IF sCall.method = "addForkNode"
                                    THEN "fork:added" ELSE "fork:removed",
                           detail |-> [conversationId |-> "conv1", turnId |-> TurnU0,
                                       forkGroupId |-> "fork-group-1"]]>>
        /\ ~ResolvedTrue => sEvents = <<>>

\* C19 witness: addForkNode resolved true and its event emitted
C19_Witness ==
    /\ sPc = "done"
    /\ sCall.method = "addForkNode"
    /\ ResolvedTrue
    /\ Len(sEvents) = 1 /\ sEvents[1].name = "fork:added"

\* the failure of the call and its message: the error thrown, lastError, or
\* the error of a response whose ok is not true
FailureMessages ==
    IF RuntimeThrew THEN {LastRuntimeStep.threw}
    ELSE IF ~RuntimeCalledBack THEN {}
    ELSE IF LastRuntimeStep.lastError.set THEN {LastRuntimeStep.lastError.message}
    ELSE IF "ok" \in DOMAIN LastRuntimeStep.response /\ LastRuntimeStep.response.ok = TRUE
         THEN {}
    ELSE IF "error" \in DOMAIN LastRuntimeStep.response /\ LastRuntimeStep.response.error # ""
         THEN {LastRuntimeStep.response.error}
    ELSE {"Unknown error"}

\* the promise of a call is settled once, when the call is done; after a
\* transport failure or a response whose ok is not true it is rejected with the
\* message of the failure ('Unknown error' when the response gives none),
\* never fulfilled; without a failure it is fulfilled
FailuresReject ==
    /\ sSettles = (IF sPc = "done" THEN 1 ELSE 0)
    /\ (sPc = "done") <=> (sResult.state \in {"fulfilled", "rejected"})
    /\ sPc = "done" =>
          /\ \A message \in FailureMessages : sResult = Rejected(message)
          /\ FailureMessages = {} => sResult.state = "fulfilled"

\* C20: every call settles, exactly once; a transport failure (lastError set,
\* or sendMessage throwing) or a response whose ok is not true rejects with the
\* transport or store message, 'Unknown error' when none is given, and never
\* resolves, so that resolved false is told apart from never executed
C20_FailuresRejectOnce == []FailuresReject /\ <>(sSettles = 1)

\* C20 witness: removeForkNode answered {ok: false} by the store, rejected with
\* 'Unknown error'
C20_Witness ==
    /\ sPc = "done"
    /\ sCall.method = "removeForkNode"
    /\ RuntimeCalledBack
    /\ LastRuntimeStep.response = [ok |-> FALSE]
    /\ sResult = Rejected("Unknown error")
    /\ sEvents = <<>>

\* ------------------------------------------------------------------------
\* Properties of checkConversationExists and pruneDeletedNodesFromGroup
\* (SpecPrune)
\* ------------------------------------------------------------------------

\* the nodes of the group the run has a verdict on
Judged == 1..Len(xVerdicts)

JudgedNodes(P(_)) == {xNodes[i] : i \in {j \in Judged : P(xVerdicts[j])}}

VerificationFailed(verdict) == verdict.via \in {"network error", "timeout"}

SaidAbsent(verdict) == ~verdict.exists

RequestFor(node) == IdentityPayload(node.conversationId, node.turnId, node.forkGroupId)

\* C21: a node whose verification request failed (network error or timeout) is
\* kept in the result and no removeForkNode is issued for it; removeForkNode is
\* issued exactly for the nodes whose check said 'does not exist'
C21_PruneFailsOpen ==
    xPc \in {"loop", "fetching", "removing", "idle"} =>
        /\ \A node \in JudgedNodes(VerificationFailed) :
              /\ node \in Range(xCleaned)
              /\ RequestFor(node) \notin Range(xRemoved)
        /\ Range(xRemoved) = {RequestFor(node) : node \in JudgedNodes(SaidAbsent)}
        /\ Range(xCleaned) = {xNodes[i] : i \in Judged} \ JudgedNodes(SaidAbsent)

\* C21 witness: a run that removed one node after a definite 'does not exist'
\* and kept another whose request timed out
C21_Witness ==
    /\ xPc = "idle"
    /\ Len(xVerdicts) = 2
    /\ xVerdicts[1].via = "response" /\ ~xVerdicts[1].exists
    /\ xVerdicts[2].via = "timeout"
    /\ xCleaned = <<xNodes[2]>>
    /\ xRemoved = <<RequestFor(xNodes[1])>>

\* the reading of the cache a verdict was reached from
CacheAge(verdict) == verdict.now - verdict.cached.checkedAt

IsCurrent(verdict) == verdict.current # "" /\ verdict.conversationId = verdict.current

InSidebar(verdict) == verdict.conversationId \in xSidebar

\* where the verdicts of the run come from
VerdictSources ==
    \A i \in Judged :
        LET verdict == xVerdicts[i]
        IN  /\ verdict.via = "cache" =>
                  /\ verdict.cached.cached
                  /\ CacheAge(verdict) <= CONVERSATION_EXISTENCE_CACHE_TTL_MS
                  /\ verdict.exists = verdict.cached.exists
                  /\ ~IsCurrent(verdict) /\ ~InSidebar(verdict)
            /\ IsCurrent(verdict) \/ InSidebar(verdict) =>
                  verdict.via \in {"current", "sidebar"} /\ verdict.exists
            /\ (/\ ~IsCurrent(verdict) /\ ~InSidebar(verdict)
                /\ verdict.cached.cached
                /\ CacheAge(verdict) > CONVERSATION_EXISTENCE_CACHE_TTL_MS) =>
                  verdict.via \in {"no url", "response", "network error", "timeout"}

\* a step that ends a request in a failure leaves the cache as it was
FailedRequestWritesNothing ==
    (/\ xPc = "fetching"
     /\ Len(xVerdicts') = Len(xVerdicts) + 1
     /\ VerificationFailed(xVerdicts'[Len(xVerdicts')])) => xCache' = xCache

\* C25: a verdict is taken from the cache only while now - checkedAt <= 30000 ms,
\* an older entry makes checkConversationExists verify again; the current
\* conversation and a conversation of the sidebar are reported as existing
\* without the cache; a verification that failed open writes no cache entry
C25_CacheBoundedLifetime == []VerdictSources /\ [][FailedRequestWritesNothing]_vars

\* C25 witness: an entry exactly 30000 ms old was used, and in the same run an
\* older entry was not
C25_Witness ==
    /\ \E i \in Judged :
          /\ xVerdicts[i].via = "cache"
          /\ CacheAge(xVerdicts[i]) = CONVERSATION_EXISTENCE_CACHE_TTL_MS
    /\ \E i \in Judged :
          /\ xVerdicts[i].cached.cached
          /\ CacheAge(xVerdicts[i]) > CONVERSATION_EXISTENCE_CACHE_TTL_MS
          /\ xVerdicts[i].via = "network error"

\* ------------------------------------------------------------------------
\* Properties of watchForNewConversation (SpecWatch)
\* ------------------------------------------------------------------------

\* C22: for one pending fork no more than two addForkNode requests are issued,
\* whatever URL changes, events and poll ticks follow the first detection
C22_TwoAddsPerFork == Len(wAdds) <= 2

\* the four fields of a submitted node the claim names
SubmittedAs(node) == <<node.conversationId, node.turnId, node.forkGroupId, node.forkIndex>>

\* C29: in every run of checkUrl the source node is submitted first; the node
\* of the new conversation (newConvId, "u-0", same group, nextForkIndex) is
\* submitted only after that submission resolved, and never when it rejected
C29_SourceBeforeNew ==
    /\ \A i \in DOMAIN wAdds :
          LET run == wRuns[wAdds[i].run]
          IN  IF wAdds[i].role = "source"
              THEN SubmittedAs(wAdds[i].node) =
                       <<wPending.sourceConversationId, wPending.sourceTurnId,
                         wPending.forkGroupId, wPending.sourceForkIndex>>
              ELSE /\ SubmittedAs(wAdds[i].node) =
                          <<run.newConvId, FirstTurnId, wPending.forkGroupId,
                            wPending.nextForkIndex>>
                   /\ run.source \in {"true", "false"}
                   /\ \E j \in 1..(i - 1) :
                          wAdds[j].run = wAdds[i].run /\ wAdds[j].role = "source"
    /\ \A r \in DOMAIN wRuns :
          /\ \E i \in DOMAIN wAdds : wAdds[i].run = r /\ wAdds[i].role = "source"
          /\ wRuns[r].source = "rejects" =>
                ~\E i \in DOMAIN wAdds : wAdds[i].run = r /\ wAdds[i].role = "new"

\* C29 witness: one run submitted both nodes after its source submission
\* resolved false, another run's source submission rejected
C29_Witness ==
    /\ Len(wRuns) = 2
    /\ wRuns[1].source = "false" /\ wRuns[1].pc = "done"
    /\ wRuns[2].source = "rejects"
    /\ Len(wAdds) = 3

\* ------------------------------------------------------------------------
\* Properties of collectForkChatPairs and extractConversationUpToTurn
\* (SpecExtract)
\* ------------------------------------------------------------------------

\* the pairs at positions 0..k as turns
PairsUpTo(k) == [i \in 1..(k + 1) |-> ForkExtractedTurn(ePairs[i].user, ePairs[i].assistant)]

\* C23: the transcript of a fork at pair position k is built from exactly the
\* pairs at positions 0..k in order, the assistant text of the k-th dropped,
\* also when the collector skipped user elements without text
C23_TranscriptUpToClickedTurn ==
    ePc = "extracted" =>
        /\ eTurns = PairsUpTo(eIndex)
        /\ eOut = buildForkMarkdown(ExtractTitle, PairsUpTo(eIndex), TRUE)

\* C24: the element at every position k of the list collectForkChatPairs
\* returns has the turn id makeStableTurnId(k), and the elements follow the
\* order of the user turns of the page
C24_PairsPositionallyIndexed ==
    ePc \in {"buttons", "extracted"} =>
        /\ \A k \in 0..(Len(ePairs) - 1) : ePairs[k + 1].turnId = makeStableTurnId(k)
        /\ \A i, j \in 1..Len(ePairs) : i < j => ePairs[i].userElement < ePairs[j].userElement

\* ------------------------------------------------------------------------
\* Properties of startFork and injectForkIndicators (SpecIndicators)
\* ------------------------------------------------------------------------

\* C27: no user-message host holds more than one fork indicator group at any
\* time, also when runs of injectForkIndicators overlap
C27_OneIndicatorGroupPerHost ==
    iPhase \in {"started", "cleaned"} => \A h \in Hosts : iGroups[h] <= 1

\* C28: once the cleanup function of startFork has run, the page holds no fork
\* button and no fork indicator group
C28_NothingInjectedAfterCleanup ==
    iPhase = "cleaned" => iButtons = {} /\ \A h \in Hosts : iGroups[h] = 0

\* ------------------------------------------------------------------------
\* Properties of executeFork (SpecExecute)
\* ------------------------------------------------------------------------

PendingPlan ==
    [forkGroupId |-> fPending.fork.forkGroupId,
     sourceForkIndex |-> fPending.fork.sourceForkIndex,
     nextForkIndex |-> fPending.fork.nextForkIndex]

\* the plan resolveForkPlan returns for the nodes and groups of the store
ResolvedPlan ==
    LET turnId == makeStableTurnId(fTurnIndex)
        conversationNodes == getForConversation(fStore, fConversationId)
        sameTurn == SameTurnNodes(turnId, conversationNodes)
        ids == {sameTurn[i].forkGroupId : i \in 1..Len(sameTurn)}
    IN  resolveForkPlan(fConversationId, turnId, conversationNodes,
                        [g \in ids |-> getGroup(fStore, g)], PlanGroupId)

\* C30: when a read of the store fails executeFork goes on with a fresh
\* forkGroupId, sourceForkIndex 0 and nextForkIndex 1; when the reads succeed
\* the pending fork carries the plan of resolveForkPlan; without a conversation
\* id or without transcript content no pending fork is stored and no
\* conversation opened
C30_ForkPlanOrDefault ==
    /\ fPc \in {"opened", "returned"} =>
          /\ (fConversationId = "" \/ Trim(fMarkdown) = <<>>) =>
                fPending = NoPendingFork /\ fOpened = 0
          /\ (fReads = "failed" /\ ~fStorageFull) =>
                /\ fPc = "opened" /\ fOpened = 1 /\ fPending.stored
                /\ PendingPlan = [forkGroupId |-> "fork-a", sourceForkIndex |-> 0,
                                  nextForkIndex |-> 1]
          /\ (fReads = "succeeded" /\ ~fStorageFull) =>
                /\ fPc = "opened" /\ fOpened = 1 /\ fPending.stored
                /\ PendingPlan = ResolvedPlan
                /\ fPending.fork.sourceConversationId = fConversationId
                /\ fPending.fork.sourceTurnId = makeStableTurnId(fTurnIndex)
    /\ fPending.stored <=> fOpened = 1
    /\ fPc \in {"click", "nodes", "groups"} => fOpened = 0

\* C30 witness: the nodes of the conversation were read, the read of a group
\* failed, and the fork went on with the default plan although the store holds
\* a group for the turn
C30_Witness ==
    /\ fPc = "opened"
    /\ fReads = "failed"
    /\ fStore = SeedStore /\ fConversationId = "conv1" /\ fTurnIndex = 0
    /\ ResolvedPlan.forkGroupId = "fork-0"
    /\ fPending.stored /\ fPending.fork.forkGroupId = "fork-a"
    /\ fOpened = 1

====
